---------------------------- MODULE Spec2Model ----------------------------
(***************************************************************************)
(* A model of the AI Bridge data-labeling backend: the bearer-token and    *)
(* role decorators, registration and login, the project and file routes,  *)
(* the dashboards, the cache adapter with its rate limiter, the payment    *)
(* routes with the Stripe webhook and the cost calculation, and requests   *)
(* handled by two workers at once.                                         *)
(***************************************************************************)
EXTENDS Integers, Sequences, FiniteSets, TLC

\* Python's None, where a float or a dict is expected
None == [none |-> TRUE]

(***************************************************************************)
(* Python floats.  A float is an IEEE 754 binary64 value m * 2^e with a    *)
(* 53-bit mantissa m; the mantissa does not fit the model checker's        *)
(* integers, so it is kept as a little-endian sequence of 15-bit limbs     *)
(* (no leading zero limb; the empty sequence is 0).  Every operation       *)
(* computes the exact result and rounds it to nearest, ties to even, as    *)
(* the hardware does.  Only non-negative finite values occur.              *)
(***************************************************************************)
LimbBits == 16 - 1
LimbBase == 2 ^ LimbBits
MantBits == 53

RECURSIVE BNorm(_)
BNorm(a) ==
    IF a = << >> THEN << >>
    ELSE IF a[Len(a)] = 0 THEN BNorm(SubSeq(a, 1, Len(a) - 1))
    ELSE a

RECURSIVE BFromInt(_)
BFromInt(n) ==
    IF n = 0 THEN << >>
    ELSE <<n % LimbBase>> \o BFromInt(n \div LimbBase)

RECURSIVE BToInt(_)
BToInt(a) ==
    IF a = << >> THEN 0
    ELSE a[1] + LimbBase * BToInt(Tail(a))

Limb(a, i) == IF i <= Len(a) THEN a[i] ELSE 0

RECURSIVE BAddFrom(_, _, _, _)
BAddFrom(a, b, i, c) ==
    IF i > Len(a) /\ i > Len(b)
    THEN (IF c = 0 THEN << >> ELSE <<c>>)
    ELSE LET s == Limb(a, i) + Limb(b, i) + c
         IN  <<s % LimbBase>> \o BAddFrom(a, b, i + 1, s \div LimbBase)

BAdd(a, b) == BNorm(BAddFrom(a, b, 1, 0))

RECURSIVE BSubFrom(_, _, _, _)
BSubFrom(a, b, i, borrow) ==
    IF i > Len(a) THEN << >>
    ELSE LET d == a[i] - Limb(b, i) - borrow
         IN  <<IF d < 0 THEN d + LimbBase ELSE d>>
                 \o BSubFrom(a, b, i + 1, IF d < 0 THEN 1 ELSE 0)

\* a - b for a >= b
BSub(a, b) == BNorm(BSubFrom(a, b, 1, 0))

RECURSIVE BMulSmallFrom(_, _, _, _)
BMulSmallFrom(a, k, i, c) ==
    IF i > Len(a)
    THEN (IF c = 0 THEN << >> ELSE <<c>>)
    ELSE LET p == a[i] * k + c
         IN  <<p % LimbBase>> \o BMulSmallFrom(a, k, i + 1, p \div LimbBase)

\* a * k for 0 <= k < LimbBase
BMulSmall(a, k) == BNorm(BMulSmallFrom(a, k, 1, 0))

RECURSIVE BMulFrom(_, _, _)
BMulFrom(a, b, j) ==
    IF j > Len(b) THEN << >>
    ELSE BAddFrom(BMulSmall(a, b[j]), <<0>> \o BMulFrom(a, b, j + 1), 1, 0)

BMul(a, b) == BNorm(BMulFrom(a, b, 1))

RECURSIVE BDivFrom(_, _, _, _)
BDivFrom(a, k, i, r) ==
    IF i = 0 THEN << >>
    ELSE LET cur == r * LimbBase + a[i]
         IN  BDivFrom(a, k, i - 1, cur % k) \o <<cur \div k>>

\* a \div k for 1 <= k <= LimbBase
BDivSmall(a, k) == BNorm(BDivFrom(a, k, Len(a), 0))

RECURSIVE BModFrom(_, _, _, _)
BModFrom(a, k, i, r) ==
    IF i = 0 THEN r
    ELSE BModFrom(a, k, i - 1, (r * LimbBase + a[i]) % k)

BModSmall(a, k) == BModFrom(a, k, Len(a), 0)

RECURSIVE BCmpFrom(_, _, _)
BCmpFrom(a, b, i) ==
    IF i = 0 THEN 0
    ELSE IF a[i] < b[i] THEN -1
    ELSE IF a[i] > b[i] THEN 1
    ELSE BCmpFrom(a, b, i - 1)

\* -1, 0, 1 as a < b, a = b, a > b
BCmp(a, b) ==
    IF Len(a) < Len(b) THEN -1
    ELSE IF Len(a) > Len(b) THEN 1
    ELSE BCmpFrom(a, b, Len(a))

RECURSIVE IntBitLen(_)
IntBitLen(n) == IF n = 0 THEN 0 ELSE 1 + IntBitLen(n \div 2)

BitLen(a) ==
    IF a = << >> THEN 0
    ELSE LimbBits * (Len(a) - 1) + IntBitLen(a[Len(a)])

ShiftLeft(a, s) ==
    IF a = << >> THEN << >>
    ELSE [i \in 1..(s \div LimbBits) |-> 0] \o BMulSmall(a, 2 ^ (s % LimbBits))

ShiftRight(a, s) ==
    IF s \div LimbBits >= Len(a) THEN << >>
    ELSE BDivSmall(SubSeq(a, (s \div LimbBits) + 1, Len(a)), 2 ^ (s % LimbBits))

LowBits(a, s) == BSub(a, ShiftLeft(ShiftRight(a, s), s))

\* n rounded to an integer multiple of 2^s, ties to even (an inexact n, one
\* with further nonzero bits below it, is never a tie), divided by 2^s
RoundShift(n, s, sticky) ==
    IF s = 0 THEN n
    ELSE LET q    == ShiftRight(n, s)
             c    == BCmp(LowBits(n, s), ShiftLeft(<<1>>, s - 1))
             up   == c = 1 \/ (c = 0 /\ (sticky \/ Limb(q, 1) % 2 = 1))
         IN  IF up THEN BAdd(q, <<1>>) ELSE q

FZero == [m |-> << >>, e |-> 0]

\* the float nearest to n * 2^e
RoundToDouble(n, e, sticky) ==
    IF n = << >> THEN FZero
    ELSE IF BitLen(n) <= MantBits
    THEN [m |-> ShiftLeft(n, MantBits - BitLen(n)), e |-> e - (MantBits - BitLen(n))]
    ELSE LET s == BitLen(n) - MantBits
             q == RoundShift(n, s, sticky)
         IN  IF BitLen(q) > MantBits
             THEN [m |-> ShiftRight(q, 1), e |-> e + s + 1]
             ELSE [m |-> q, e |-> e + s]

\* float(n) for an int n >= 0
FromInt(n) == RoundToDouble(BFromInt(n), 0, FALSE)

\* the float a decimal literal p/q denotes (0 <= p, 1 <= q < LimbBase)
DivToDouble(p, q) ==
    LET n == ShiftLeft(BFromInt(p), 5 * LimbBits)
    IN  RoundToDouble(BDivSmall(n, q), -(5 * LimbBits), BModSmall(n, q) # 0)

\* a * b
FMul(a, b) == RoundToDouble(BMul(a.m, b.m), a.e + b.e, FALSE)

\* a - b for a >= b >= 0
FSub(a, b) ==
    IF b.m = << >> THEN a
    ELSE LET lo == IF a.e < b.e THEN a.e ELSE b.e
         IN  RoundToDouble(BSub(ShiftLeft(a.m, a.e - lo), ShiftLeft(b.m, b.e - lo)),
                           lo, FALSE)

\* The decimal round(x, 2) arrives at, in hundredths: x * 100 rounded to the
\* nearest integer on x's exact binary value, ties to even.
RoundCents(x) ==
    LET n == BMulSmall(x.m, 100)
    IN  IF x.e >= 0 THEN BToInt(ShiftLeft(n, x.e))
        ELSE BToInt(RoundShift(n, -x.e, FALSE))

\* round(x, 2): the float nearest to that decimal
Round2(x) == DivToDouble(RoundCents(x), 100)


(***************************************************************************)
(* The payment service's cost calculation                                  *)
(* (StripeService.calculate_project_cost).                                 *)
(***************************************************************************)
\* the request of a cost calculation and its result
VARIABLES cost_req, cost_res

costVars == <<cost_req, cost_res>>

\* self.pricing_tiers[tier]['price_per_annotation']
pricing_tiers ==
    [starter      |-> DivToDouble(15, 100),
     professional |-> DivToDouble(12, 100),
     enterprise   |-> DivToDouble(10, 100)]

\* Python's truth value of the custom_rate argument
Truthy(custom_rate) == custom_rate # None /\ custom_rate # FZero

TierOfLt(annotation_count) ==
    IF annotation_count < 1000 THEN "starter"
    ELSE IF annotation_count < 10000 THEN "professional"
    ELSE "enterprise"

\* the pricing tier of a count
TierOf(annotation_count) ==
    IF annotation_count <= 1000 THEN "starter"
    ELSE IF annotation_count <= 10000 THEN "professional"
    ELSE "enterprise"

DiscountBandGe(annotation_count) ==
    IF annotation_count >= 50000 THEN DivToDouble(15, 100)
    ELSE IF annotation_count >= 25000 THEN DivToDouble(10, 100)
    ELSE IF annotation_count >= 10000 THEN DivToDouble(5, 100)
    ELSE FZero

\* the volume discount of a count
DiscountBand(annotation_count) ==
    IF annotation_count > 50000 THEN DivToDouble(15, 100)
    ELSE IF annotation_count > 25000 THEN DivToDouble(10, 100)
    ELSE IF annotation_count > 10000 THEN DivToDouble(5, 100)
    ELSE FZero

DiscountedTruncated(total_cost, discount_percentage) ==
    IF discount_percentage = FZero THEN total_cost
    ELSE FSub(total_cost, Round2(FMul(total_cost, discount_percentage)))

\* total_cost after "discount_amount = total_cost * discount_percentage;
\* total_cost -= discount_amount" (the else branch subtracts nothing)
Discounted(total_cost, discount_percentage) ==
    IF discount_percentage = FZero THEN total_cost
    ELSE FSub(total_cost, FMul(total_cost, discount_percentage))

calculate_project_cost(annotation_count, custom_rate) ==
    LET tier == IF Truthy(custom_rate) THEN "custom" ELSE TierOf(annotation_count)
        rate == IF Truthy(custom_rate) THEN custom_rate ELSE pricing_tiers[tier]
        total_cost == FMul(FromInt(annotation_count), rate)
        discount_percentage == DiscountBand(annotation_count)
        discount_amount ==
            IF discount_percentage = FZero THEN FZero
            ELSE FMul(total_cost, discount_percentage)
    IN  [annotation_count    |-> annotation_count,
         tier                |-> tier,
         rate_per_annotation |-> rate,
         subtotal            |-> FMul(FromInt(annotation_count), rate),
         discount_percentage |-> discount_percentage,
         discount_amount     |-> Round2(discount_amount),
         total_cost          |-> Round2(Discounted(total_cost, discount_percentage)),
         currency            |-> "usd"]

\* the counts tried: the small ones, those around each threshold of the tier
\* and discount tables, and the 60000 of the worked example
SmallCounts == 3
CountWindow == 2
CountThresholds == {1000, 10000, 25000, 50000}
CostCounts ==
    (0..SmallCounts)
        \cup {t + d : t \in CountThresholds, d \in (-CountWindow)..CountWindow}
        \cup {60000}
\* the custom_rate arguments tried: absent, 0, 0.2 and 0.07
CustomRates == {None, FZero, DivToDouble(20, 100), DivToDouble(7, 100)}

CostInit ==
    /\ cost_req \in [annotation_count : CostCounts, custom_rate : CustomRates]
    /\ cost_res = None

CalculateProjectCost ==
    /\ cost_res = None
    /\ cost_res' = calculate_project_cost(cost_req.annotation_count, cost_req.custom_rate)
    /\ UNCHANGED cost_req

(***************************************************************************)
(* Properties of the cost calculation, checked under SpecCost.             *)
(***************************************************************************)
CostDone == cost_res # None
NoCustomRate == cost_req.custom_rate = None

\* C7: with no custom rate the tier follows from annotation_count alone:
\* count <= 1000 gives "starter" at rate 0.15 and discount 0, 1000 < count <=
\* 10000 gives "professional" at 0.12, count > 10000 gives "enterprise" at 0.10.
C7_TierByCount ==
    (CostDone /\ NoCustomRate) =>
        LET n == cost_req.annotation_count
        IN  /\ n <= 1000 =>
                /\ cost_res.tier = "starter"
                /\ cost_res.rate_per_annotation = DivToDouble(15, 100)
                /\ cost_res.discount_percentage = FZero
            /\ (1000 < n /\ n <= 10000) =>
                /\ cost_res.tier = "professional"
                /\ cost_res.rate_per_annotation = DivToDouble(12, 100)
            /\ n > 10000 =>
                /\ cost_res.tier = "enterprise"
                /\ cost_res.rate_per_annotation = DivToDouble(10, 100)

C7_Witness ==
    /\ CostDone /\ NoCustomRate
    /\ cost_req.annotation_count = 1000
    /\ cost_res.tier = "starter"

C9_Totals ==
    CostDone =>
        LET n == cost_req.annotation_count
        IN  /\ cost_res.subtotal = FMul(FromInt(n), cost_res.rate_per_annotation)
            /\ cost_res.total_cost
                   = Round2(FSub(cost_res.subtotal,
                                 FMul(cost_res.subtotal, cost_res.discount_percentage)))
            /\ (NoCustomRate /\ n = 10001) =>
                   /\ cost_res.subtotal = DivToDouble(100010, 100)
                   /\ cost_res.total_cost = DivToDouble(95010, 100)
            /\ (NoCustomRate /\ n = 60000) =>
                   /\ cost_res.subtotal = FromInt(6000)
                   /\ cost_res.discount_percentage = DivToDouble(15, 100)
                   /\ cost_res.total_cost = FromInt(5100)

C9_Witness ==
    /\ CostDone /\ NoCustomRate
    /\ cost_req.annotation_count = 10001
    /\ cost_res.total_cost = DivToDouble(95010, 100)

\* C10: whenever a custom_rate is given, 0 included, the result has tier
\* "custom", rate_per_annotation = custom_rate and subtotal = annotation_count
\* * custom_rate.
C10_CustomRateAlwaysUsed ==
    (CostDone /\ ~NoCustomRate) =>
        /\ cost_res.tier = "custom"
        /\ cost_res.rate_per_annotation = cost_req.custom_rate
        /\ cost_res.subtotal
               = FMul(FromInt(cost_req.annotation_count), cost_req.custom_rate)


(***************************************************************************)
(* The web application: strings, accounts and tokens.                      *)
(* A string is the sequence of its characters.                             *)
(***************************************************************************)
UpperCase == <<"A","B","C","D","E","F","G","H","I","J","K","L","M",
               "N","O","P","Q","R","S","T","U","V","W","X","Y","Z">>
LowerCase == <<"a","b","c","d","e","f","g","h","i","j","k","l","m",
               "n","o","p","q","r","s","t","u","v","w","x","y","z">>
Digits == {"0","1","2","3","4","5","6","7","8","9"}
UpperLetters == {UpperCase[i] : i \in DOMAIN UpperCase}
Letters == UpperLetters \cup {LowerCase[i] : i \in DOMAIN LowerCase}

\* str.lower()
ToLower ==
    [c \in UpperLetters |-> LowerCase[CHOOSE i \in DOMAIN UpperCase : UpperCase[i] = c]]
LowerChar(c) == IF c \in UpperLetters THEN ToLower[c] ELSE c
lowerAsIs(s) == s
RECURSIVE lower(_)
lower(s) == IF s = << >> THEN << >> ELSE <<LowerChar(Head(s))>> \o lower(Tail(s))

\* str.strip()
RECURSIVE lstrip(_)
lstrip(s) == IF s # << >> /\ Head(s) = " " THEN lstrip(Tail(s)) ELSE s
RECURSIVE rstrip(_)
rstrip(s) ==
    IF s # << >> /\ s[Len(s)] = " " THEN rstrip(SubSeq(s, 1, Len(s) - 1)) ELSE s
strip(s) == rstrip(lstrip(s))

\* re.match(r'^[a-zA-Z0-9._%+-]+@[a-zA-Z0-9.-]+\.[a-zA-Z]{2,}$', email)
validate_email(email) ==
    \E at \in DOMAIN email, dot \in DOMAIN email :
        /\ email[at] = "@" /\ email[dot] = "."
        /\ 1 < at /\ at + 1 < dot /\ dot + 2 <= Len(email)
        /\ \A i \in 1..(at - 1) :
               email[i] \in Letters \cup Digits \cup {".", "_", "%", "+", "-"}
        /\ \A i \in (at + 1)..(dot - 1) :
               email[i] \in Letters \cup Digits \cup {".", "-"}
        /\ \A i \in (dot + 1)..Len(email) : email[i] \in Letters

MinPasswordLength == 8

validate_password_without_digit(password) ==
    IF Len(password) < MinPasswordLength
    THEN [ok |-> FALSE, message |-> "Password must be at least 8 characters long"]
    ELSE IF ~ \E i \in DOMAIN password : password[i] \in UpperLetters
    THEN [ok |-> FALSE,
          message |-> "Password must contain at least one uppercase letter"]
    ELSE IF ~ \E i \in DOMAIN password : password[i] \in Letters \ UpperLetters
    THEN [ok |-> FALSE,
          message |-> "Password must contain at least one lowercase letter"]
    ELSE [ok |-> TRUE, message |-> "Password is valid"]

\* validate_password: (is_valid, message)
validate_password(password) ==
    IF Len(password) < MinPasswordLength
    THEN [ok |-> FALSE, message |-> "Password must be at least 8 characters long"]
    ELSE IF ~ \E i \in DOMAIN password : password[i] \in UpperLetters
    THEN [ok |-> FALSE,
          message |-> "Password must contain at least one uppercase letter"]
    ELSE IF ~ \E i \in DOMAIN password : password[i] \in Letters \ UpperLetters
    THEN [ok |-> FALSE,
          message |-> "Password must contain at least one lowercase letter"]
    ELSE IF ~ \E i \in DOMAIN password : password[i] \in Digits
    THEN [ok |-> FALSE, message |-> "Password must contain at least one number"]
    ELSE [ok |-> TRUE, message |-> "Password is valid"]

\* werkzeug's salted hash: only the password hashed verifies against it
generate_password_hash(password) == [hash_of |-> password]
check_password_hash(password_hash, password) == password_hash = [hash_of |-> password]

\* a NULL column of integer type (ids and timestamps are positive)
NULL == 0

\* UserRole
ADMIN == "admin"
CLIENT_ADMIN == "client_admin"
PROJECT_MANAGER == "project_manager"
LABELER == "labeler"
REVIEWER == "reviewer"
CLIENT_USER == "client_user"
UserRole == {ADMIN, CLIENT_ADMIN, PROJECT_MANAGER, LABELER, REVIEWER, CLIENT_USER}

\* ProjectStatus
ProjectStatus == {"draft", "active", "in_progress", "review", "completed", "cancelled"}

(***************************************************************************)
(* The state: the database tables (a row is a record, users[i] is the row  *)
(* with id i), the objects of the S3 bucket, the clock, and the last       *)
(* response together with the request it answers.                          *)
(***************************************************************************)
VARIABLES users, organizations, projects, datasets, data_items, annotations,
          reviews, s3_objects, now, resp

\* the requests under way in the workers of the server: where each concurrent
\* registration and each concurrent upload stands
VARIABLES reg, up

\* Stripe as the payment routes see it: the payment intents created, and
\* whether STRIPE_WEBHOOK_SECRET is configured
VARIABLES stripe_intents, webhook_secret

\* where each concurrent call of rate_limit_check stands
VARIABLES lim

\* the key-value store behind RedisService: whether the service holds a
\* client, whether the server answers, its live and expired entries, and the
\* outcome of the last call of the service
VARIABLES redis_client, redis_up, store, redis_out

dbVars == <<users, organizations, projects, datasets, data_items, annotations, reviews>>
appVars == <<dbVars, s3_objects, now, resp>>
redisVars == <<redis_client, redis_up, store, redis_out>>
\* the workers of the server that take requests at once
Workers == {1, 2}
stripeVars == <<stripe_intents, webhook_secret>>
workVars == <<reg, up, stripeVars, lim>>
\* what the routes leave alone
sideVars == <<costVars, redisVars, workVars>>
vars == <<appVars, costVars, redisVars, workVars>>

\* app.config['SECRET_KEY']
SECRET_KEY == "SECRET_KEY"
\* generate_token's expires_in
TokenExpiresIn == 3600

\* User.is_client_user
is_client_user(user) == user.role \in {CLIENT_ADMIN, CLIENT_USER}

\* User.generate_token: the payload, signed with secret_key
generate_token(user, secret_key) ==
    [user_id         |-> user.id,
     role            |-> user.role,
     organization_id |-> user.organization_id,
     exp             |-> now + TokenExpiresIn,
     key             |-> secret_key]

\* a part of a header that is a token of the JWT form
IsJwt(part) == "key" \in DOMAIN part

\* User.verify_token: the payload, or None for a token that does not decode,
\* has another signature or has expired
verify_token(token, secret_key) ==
    IF ~IsJwt(token) THEN None
    ELSE IF token.key # secret_key THEN None
    ELSE IF token.exp <= now THEN None
    ELSE [user_id |-> token.user_id, role |-> token.role,
          organization_id |-> token.organization_id, exp |-> token.exp]

\* auth_header.split(" ")[1] of a header given by its space-separated parts
\* takes the second part whatever the first one is
TokenPart(parts) == parts[2]

\* token_required up to the call of the wrapped handler: the 401 it answers
\* with, or the authenticated user
token_required(header) ==
    IF ~header.present
    THEN [ok |-> FALSE, message |-> "Token is missing", user_id |-> NULL]
    ELSE IF Len(header.parts) < 2
    THEN [ok |-> FALSE, message |-> "Invalid token format", user_id |-> NULL]
    ELSE LET token == TokenPart(header.parts)
             payload == verify_token(token, SECRET_KEY)
         IN  IF token = [word |-> ""]
             THEN [ok |-> FALSE, message |-> "Token is missing", user_id |-> NULL]
             ELSE IF payload = None
             THEN [ok |-> FALSE, message |-> "Token is invalid or expired",
                   user_id |-> NULL]
             ELSE IF payload.user_id \notin DOMAIN users
                     \/ ~users[payload.user_id].is_active
             THEN [ok |-> FALSE, message |-> "User not found or inactive",
                   user_id |-> NULL]
             ELSE [ok |-> TRUE, message |-> "", user_id |-> payload.user_id]

\* current_user.last_activity = datetime.utcnow(); db.session.commit()
Touch(user_id) == [users EXCEPT ![user_id].last_activity = now]

\* role_required(*allowed_roles)
role_required_of_anyone(allowed_roles, current_user) == TRUE
role_required(allowed_roles, current_user) == current_user.role \in allowed_roles

(***************************************************************************)
(* Requests and responses.                                                 *)
(***************************************************************************)
\* an Authorization header: absent, or the parts that split(" ") gives
NoHeader == [present |-> FALSE, parts |-> << >>]
Header(parts) == [present |-> TRUE, parts |-> parts]
Bearer(token) == Header(<<[word |-> "Bearer"], token>>)

\* the token that /login or /register hands to user_id at this moment
TokenOf(user_id) == generate_token(users[user_id], SECRET_KEY)

\* the headers tried: none, a scheme without a token, an empty token, a token
\* that does not decode, the tokens of the accounts, an expired one, one signed
\* with another key, one of an account that does not exist, a valid token
\* behind another scheme, and the token of the last response
Headers ==
    {NoHeader,
     Header(<<[word |-> "Bearer"]>>),
     Header(<<[word |-> "Bearer"], [word |-> ""], TokenOf(1)>>),
     Bearer([word |-> "garbage"]),
     Bearer([TokenOf(1) EXCEPT !.exp = now - 1]),
     Bearer([TokenOf(1) EXCEPT !.key = "other key"]),
     Bearer([TokenOf(1) EXCEPT !.user_id = Len(users) + 1]),
     Header(<<[word |-> "Basic"], TokenOf(1)>>)}
        \cup {Bearer(TokenOf(u)) : u \in DOMAIN users}
        \cup (IF resp.token = None THEN {} ELSE {Bearer(resp.token)})

\* a response: the handler that was routed to, the header of the request, the
\* status and message, the authenticated caller, whether the wrapped handler
\* was invoked, and what the handler was asked for (target, arg, the JSON body
\* data) and returned (listed, token)
Response(route, header, status, message) ==
    [route |-> route, header |-> header, status |-> status, message |-> message,
     caller |-> NULL, handler |-> FALSE, target |-> NULL, arg |-> NULL,
     listed |-> {}, token |-> None, data |-> None, pagination |-> None]

\* the response of the wrapped handler for current_user
Handled(route, header, current_user, status, message, target) ==
    [Response(route, header, status, message)
        EXCEPT !.caller = current_user.id, !.handler = TRUE, !.target = target]

\* the cap on the accounts that send authenticated requests in one run
MaxCallers == 1

\* the request passes token_required (and its account is within the cap)
Admitted(auth) ==
    /\ auth.ok
    /\ Cardinality({u \in DOMAIN users : users[u].last_activity # NULL}
                       \cup {auth.user_id}) <= MaxCallers

\* the headers tried that are admitted
AdmittedHeaders == {header \in Headers : Admitted(token_required(header))}

\* token_required's 401, the same on every route it wraps: nothing is written
\* and the handler is not called
RejectToken ==
    \E header \in Headers :
        LET auth == token_required(header)
        IN  /\ ~auth.ok
            /\ resp' = Response("", header, 401, auth.message)
            /\ UNCHANGED <<dbVars, s3_objects, now>>

\* role_required's 403: the handler is not called; token_required has already
\* committed the caller's last_activity
Forbidden(route, header, current_user) ==
    /\ resp' = [Response(route, header, 403, "Insufficient permissions")
                    EXCEPT !.caller = current_user.id]
    /\ users' = Touch(current_user.id)
    /\ UNCHANGED <<organizations, projects, datasets, data_items, annotations,
                   reviews, s3_objects, now>>

\* the next id of a table (SQLite's rowid: one more than the largest in use)
Max(S) == CHOOSE x \in S : \A y \in S : y <= x
NextId(table) == IF table = {} THEN 1 ELSE 1 + Max({row.id : row \in table})

\* Model.query.get(id) on a table held as a set of rows
HasRow(table, id) == \E row \in table : row.id = id
Row(table, id) == CHOOSE row \in table : row.id = id

(***************************************************************************)
(* The project routes (routes/projects.py).                                *)
(***************************************************************************)
\* the cap on the ids of the project table
MaxProjects == 3

\* the project ids a request may name: those stored and one that is not
ProjectIds == {p.id : p \in projects} \cup {NextId(projects)}

VisibleProjectsToStaff(current_user) ==
    IF is_client_user(current_user)
    THEN {p \in projects : p.organization_id = current_user.organization_id}
    ELSE projects

\* the role scoping of GET /projects/
VisibleProjects(current_user) ==
    IF is_client_user(current_user)
    THEN {p \in projects : p.organization_id = current_user.organization_id}
    ELSE IF current_user.role = LABELER
    THEN {p \in projects : \E a \in annotations :
              a.project_id = p.id /\ a.labeler_id = current_user.id}
    ELSE IF current_user.role = REVIEWER
    THEN {p \in projects : \E r \in reviews :
              r.project_id = p.id /\ r.reviewer_id = current_user.id}
    ELSE projects

\* the ?status= arguments tried ("" is no argument)
StatusFilters == {"", "draft", "bogus"}

\* the orders in which a query without order_by may return the rows of ids
Arrangements(ids) ==
    {order \in [1..Cardinality(ids) -> ids] :
        \A i, j \in DOMAIN order : i # j => order[i] # order[j]}

\* Query.paginate(page=page, per_page=per_page, error_out=False) on the rows
\* in the order the query returns them, for page and per_page from 1 on: no
\* max_per_page is passed, so per_page is used as it is
paginate(order, page, per_page) ==
    LET total == Len(order)
        pages == (total + per_page - 1) \div per_page
        first == (page - 1) * per_page + 1
        last == IF page * per_page < total THEN page * per_page ELSE total
    IN  [items |-> SubSeq(order, first, last), total |-> total, pages |-> pages,
         has_next |-> page < pages, has_prev |-> page > 1]

\* the "pagination" object of a list response
PaginationOf(pagination, page, per_page) ==
    [page |-> page, per_page |-> per_page, total |-> pagination.total,
     pages |-> pagination.pages, has_next |-> pagination.has_next,
     has_prev |-> pagination.has_prev]

\* the page size get_projects asks for when the request names none, and the
\* largest it asks for
DefaultPerPage == 20
MaxPerPage == 100
UncappedPerPage(per_page) == per_page
CappedPerPage(per_page) == IF per_page < MaxPerPage THEN per_page ELSE MaxPerPage

\* get_projects for the ?page= and ?per_page= arguments of pages and per_pages
GetProjectsOf(pages, per_pages) ==
    \E header \in AdmittedHeaders, status \in StatusFilters,
       page \in pages, asked \in per_pages :
        LET auth == token_required(header)
            current_user == users[auth.user_id]
            per_page == CappedPerPage(asked)
            query == {q \in VisibleProjects(current_user) :
                         status = "" \/ q.status = status}
            \* order_by(Project.created_at.desc())
            orders == {order \in Arrangements({q.id : q \in query}) :
                          \A i, j \in DOMAIN order :
                              i < j => Row(projects, order[i]).created_at
                                           >= Row(projects, order[j]).created_at}
        IN       /\ users' = Touch(auth.user_id)
                 /\ IF status # "" /\ status \notin ProjectStatus
                    THEN resp' = Handled("get_projects", header, current_user, 400,
                                         "Invalid status value", NULL)
                    ELSE \E order \in orders :
                           LET pagination == paginate(order, page, per_page)
                           IN  resp' =
                                 [Handled("get_projects", header, current_user, 200,
                                          "", NULL)
                                    EXCEPT !.data = [status |-> status,
                                                     page |-> page,
                                                     per_page |-> asked],
                                           !.listed =
                                               {pagination.items[i] :
                                                   i \in DOMAIN pagination.items},
                                           !.pagination =
                                               PaginationOf(pagination, page,
                                                            per_page)]
                 /\ UNCHANGED <<organizations, projects, datasets, data_items,
                                annotations, reviews, s3_objects, now>>

\* GET /projects/ without page arguments
GetProjects == GetProjectsOf({1}, {DefaultPerPage})

\* the JSON bodies of POST /projects/ tried: organization_id absent (NULL), of
\* each organization and of none; one body without a name, one with a
\* project_type that is not of the enumeration
CreateInputs ==
    {[name |-> <<"n", "e", "w">>, project_type |-> "custom", organization_id |-> o] :
        o \in {NULL} \cup DOMAIN organizations \cup {Len(organizations) + 1}}
      \cup {[name |-> << >>, project_type |-> "custom", organization_id |-> NULL],
            [name |-> <<"n", "e", "w">>, project_type |-> "bogus",
             organization_id |-> NULL]}

ProjectTypes == {"image_classification", "object_detection", "semantic_segmentation",
                 "text_classification", "named_entity_recognition",
                 "audio_classification", "video_annotation", "custom"}

CreateRoles == {ADMIN, PROJECT_MANAGER, CLIENT_ADMIN}

CreateProject ==
    /\ NextId(projects) <= MaxProjects
    /\ \E header \in AdmittedHeaders, data \in CreateInputs :
        LET auth == token_required(header)
            current_user == users[auth.user_id]
            organization_id ==
                IF current_user.role \in {ADMIN, PROJECT_MANAGER}
                       /\ data.organization_id # NULL
                THEN data.organization_id
                ELSE current_user.organization_id
            project ==
                [id |-> NextId(projects), name |-> strip(data.name),
                 project_type |-> data.project_type, status |-> "draft",
                 organization_id |-> organization_id,
                 manager_id |-> IF current_user.role = PROJECT_MANAGER
                                THEN current_user.id ELSE NULL,
                 total_items |-> 0, completed_items |-> 0, approved_items |-> 0,
                 created_at |-> now, updated_at |-> now,
                 started_at |-> NULL, completed_at |-> NULL]
            Answer(status, message) ==
                /\ resp' = [Handled("create_project", header, current_user, status,
                                    message, NULL)
                               EXCEPT !.arg = data.organization_id]
                /\ UNCHANGED projects
        IN  IF ~role_required(CreateRoles, current_user)
            THEN Forbidden("create_project", header, current_user)
            ELSE /\ users' = Touch(auth.user_id)
                 /\ UNCHANGED <<organizations, datasets, data_items, annotations,
                                reviews, s3_objects, now>>
                 /\ IF data.name = << >>
                    THEN Answer(400, "name is required")
                    ELSE IF data.project_type \notin ProjectTypes
                    THEN Answer(400, "Invalid project type")
                    ELSE IF current_user.role \in {ADMIN, PROJECT_MANAGER}
                            /\ organization_id # NULL
                            /\ organization_id \notin DOMAIN organizations
                    THEN Answer(404, "Organization not found")
                    ELSE IF organization_id = NULL
                    \* project.organization_id is NOT NULL: the commit fails
                    THEN Answer(500, "Project creation failed")
                    ELSE /\ projects' = projects \cup {project}
                         /\ resp' = [Handled("create_project", header, current_user,
                                             201, "Project created successfully",
                                             project.id)
                                        EXCEPT !.arg = data.organization_id]

AccessDeniedToClientUser(current_user, project) ==
    current_user.role = CLIENT_USER
        /\ project.organization_id # current_user.organization_id

\* "current_user.is_client_user and project.organization_id !=
\* current_user.organization_id"
AccessDenied(current_user, project) ==
    is_client_user(current_user)
        /\ project.organization_id # current_user.organization_id

\* Project.query.get_or_404 aborts inside the handler's own try, whose
\* "except Exception" turns the abort into a 500 (so in every handler below)
GetProject ==
    \E header \in AdmittedHeaders, project_id \in ProjectIds :
        LET auth == token_required(header)
            current_user == users[auth.user_id]
            project == Row(projects, project_id)
            Answer(status, message) ==
                Handled("get_project", header, current_user, status, message, project_id)
        IN       /\ users' = Touch(auth.user_id)
                 /\ resp' =
                        IF ~HasRow(projects, project_id)
                        THEN Answer(500, "Failed to get project")
                        ELSE IF AccessDenied(current_user, project)
                        THEN Answer(403, "Access denied")
                        ELSE Answer(200, "")
                 /\ UNCHANGED <<organizations, projects, datasets, data_items,
                                annotations, reviews, s3_objects, now>>

GetProjectStats ==
    \E header \in AdmittedHeaders, project_id \in ProjectIds :
        LET auth == token_required(header)
            current_user == users[auth.user_id]
            project == Row(projects, project_id)
            Answer(status, message) ==
                Handled("get_project_stats", header, current_user, status, message,
                        project_id)
        IN       /\ users' = Touch(auth.user_id)
                 /\ resp' =
                        IF ~HasRow(projects, project_id)
                        THEN Answer(500, "Failed to get project stats")
                        ELSE IF AccessDenied(current_user, project)
                        THEN Answer(403, "Access denied")
                        ELSE Answer(200, "")
                 /\ UNCHANGED <<organizations, projects, datasets, data_items,
                                annotations, reviews, s3_objects, now>>

\* the JSON bodies of PUT /projects/<id> tried: the keys present and their values
UpdateBody(fields, name, status, completed_items) ==
    [fields |-> fields, name |-> name, status |-> status,
     completed_items |-> completed_items]
UpdateInputs ==
    {UpdateBody({"status"}, << >>, "active", 0),
     UpdateBody({"name", "status"}, <<"x">>, "bogus", 0),
     UpdateBody({"completed_items"}, << >>, "", 5)}

UpdateRoles == {ADMIN, PROJECT_MANAGER, CLIENT_ADMIN}

\* the fields of the body that update_project copies onto the row (of those
\* the model keeps, name; the progress counters are not among them)
allowed_fields_and_progress ==
    {"name", "description", "annotation_schema", "quality_threshold",
     "instructions", "estimated_hours", "hourly_rate", "fixed_price",
     "completed_items"}
allowed_fields ==
    {"name", "description", "annotation_schema", "quality_threshold",
     "instructions", "estimated_hours", "hourly_rate", "fixed_price"}

\* the status after "project.status = new_status", with no check of the move
StatusAfterUnlessClosed(old_status, new_status) ==
    IF old_status \in {"completed", "cancelled"} THEN old_status ELSE new_status
StatusAfter(old_status, new_status) == new_status

\* the row that update_project commits
UpdatedProject(project, data) ==
    LET set == data.fields \cap allowed_fields
        named == IF "name" \in set
                 THEN [project EXCEPT !.name = data.name] ELSE project
        counted == IF "completed_items" \in set
                   THEN [named EXCEPT !.completed_items = data.completed_items]
                   ELSE named
        moved ==
            IF "status" \notin data.fields THEN counted
            ELSE IF data.status = "active" /\ project.status = "draft"
            THEN [counted EXCEPT !.started_at = now,
                                 !.status = StatusAfter(project.status, data.status)]
            ELSE IF data.status = "completed" /\ project.status # "completed"
            THEN [counted EXCEPT !.completed_at = now,
                                 !.status = StatusAfter(project.status, data.status)]
            ELSE [counted EXCEPT !.status = StatusAfter(project.status, data.status)]
    IN  [moved EXCEPT !.updated_at = now]

\* update_project on the bodies of inputs
UpdateProjectOf(inputs) ==
    \E header \in AdmittedHeaders, project_id \in ProjectIds, data \in inputs :
        LET auth == token_required(header)
            current_user == users[auth.user_id]
            project == Row(projects, project_id)
            Reply(status, message) ==
                [Handled("update_project", header, current_user, status, message,
                         project_id) EXCEPT !.data = data]
            Answer(status, message) ==
                /\ resp' = Reply(status, message)
                /\ UNCHANGED projects
        IN  IF ~role_required(UpdateRoles, current_user)
            THEN Forbidden("update_project", header, current_user)
            ELSE /\ users' = Touch(auth.user_id)
                 /\ UNCHANGED <<organizations, datasets, data_items, annotations,
                                reviews, s3_objects, now>>
                 /\ IF ~HasRow(projects, project_id)
                    THEN Answer(500, "Project update failed")
                    ELSE IF AccessDenied(current_user, project)
                    THEN Answer(403, "Access denied")
                    \* the fields already set are never committed
                    ELSE IF "status" \in data.fields /\ data.status \notin ProjectStatus
                    THEN Answer(400, "Invalid status value")
                    ELSE /\ projects' = (projects \ {project})
                                            \cup {UpdatedProject(project, data)}
                         /\ resp' = Reply(200, "Project updated successfully")

UpdateProject == UpdateProjectOf(UpdateInputs)

DeleteRolesAsUpdate == {ADMIN, PROJECT_MANAGER, CLIENT_ADMIN}
DeleteRoles == {ADMIN, PROJECT_MANAGER}

\* db.session.delete(project) sets the project_id of the project's annotations
\* and reviews to NULL, which their NOT NULL columns refuse
DeleteRefused(project_id) ==
    \/ \E a \in annotations : a.project_id = project_id
    \/ \E r \in reviews : r.project_id = project_id

DeleteProject ==
    \E header \in AdmittedHeaders, project_id \in ProjectIds :
        LET auth == token_required(header)
            current_user == users[auth.user_id]
            project == Row(projects, project_id)
            Answer(status, message) ==
                /\ resp' = Handled("delete_project", header, current_user, status,
                                   message, project_id)
                /\ UNCHANGED <<projects, datasets, data_items>>
        IN  IF ~role_required(DeleteRoles, current_user)
            THEN Forbidden("delete_project", header, current_user)
            ELSE /\ users' = Touch(auth.user_id)
                 /\ UNCHANGED <<organizations, annotations, reviews, s3_objects, now>>
                 /\ IF ~HasRow(projects, project_id)
                    THEN Answer(500, "Project deletion failed")
                    ELSE IF project.status # "draft" /\ current_user.role # ADMIN
                    THEN Answer(400, "Only draft projects can be deleted")
                    ELSE IF DeleteRefused(project_id)
                    THEN Answer(500, "Project deletion failed")
                    \* the datasets and their items go with the project
                    ELSE /\ projects' = projects \ {project}
                         /\ datasets' = {d \in datasets : d.project_id # project_id}
                         /\ data_items' =
                                {i \in data_items :
                                    \E d \in datasets' : d.id = i.dataset_id}
                         /\ resp' = Handled("delete_project", header, current_user,
                                            200, "Project deleted successfully",
                                            project_id)

(***************************************************************************)
(* The file routes (routes/files.py) and the S3 service.                   *)
(***************************************************************************)
ALL_ALLOWED_EXTENSIONS ==
    {<<"p","n","g">>, <<"j","p","g">>, <<"j","p","e","g">>, <<"g","i","f">>,
     <<"b","m","p">>, <<"t","i","f","f">>, <<"w","e","b","p">>, <<"p","d","f">>,
     <<"d","o","c">>, <<"d","o","c","x">>, <<"t","x","t">>, <<"r","t","f">>,
     <<"m","p","3">>, <<"w","a","v">>, <<"f","l","a","c">>, <<"a","a","c">>,
     <<"m","4","a">>, <<"o","g","g">>, <<"m","p","4">>, <<"a","v","i">>,
     <<"m","o","v">>, <<"w","m","v">>, <<"f","l","v">>, <<"w","e","b","m">>,
     <<"m","k","v">>, <<"c","s","v">>, <<"j","s","o","n">>, <<"x","m","l">>,
     <<"x","l","s","x">>, <<"x","l","s">>, <<"z","i","p">>, <<"r","a","r">>,
     <<"7","z">>, <<"t","a","r">>, <<"g","z">>}

\* the index of the last "." of a filename, 0 if it has none
RECURSIVE LastDot(_)
LastDot(filename) ==
    IF filename = << >> THEN 0
    ELSE IF filename[Len(filename)] = "." THEN Len(filename)
    ELSE LastDot(SubSeq(filename, 1, Len(filename) - 1))

\* "'.' in filename and filename.rsplit('.', 1)[1].lower() in ALL_ALLOWED_EXTENSIONS"
allowed_file(filename) ==
    /\ LastDot(filename) > 0
    /\ lower(SubSeq(filename, LastDot(filename) + 1, Len(filename)))
           \in ALL_ALLOWED_EXTENSIONS

\* werkzeug's secure_filename on ASCII names: path separators become blanks,
\* runs of blanks become one "_", other characters than letters, digits, "_",
\* "." and "-" are dropped, dots and underscores at the ends are stripped
RECURSIVE JoinWords(_, _, _)
JoinWords(s, started, gap) ==
    IF s = << >> THEN << >>
    ELSE IF Head(s) \in {" ", "/"} THEN JoinWords(Tail(s), started, started)
    ELSE (IF gap THEN <<"_">> ELSE << >>) \o <<Head(s)>>
             \o JoinWords(Tail(s), TRUE, FALSE)
RECURSIVE StripEnds(_)
StripEnds(s) ==
    IF s # << >> /\ Head(s) \in {".", "_"} THEN StripEnds(Tail(s))
    ELSE IF s # << >> /\ s[Len(s)] \in {".", "_"}
    THEN StripEnds(SubSeq(s, 1, Len(s) - 1))
    ELSE s
secure_filename(filename) ==
    StripEnds(SelectSeq(JoinWords(filename, FALSE, FALSE),
                        LAMBDA c : c \in Letters \cup Digits \cup {"_", ".", "-"}))

\* S3Service.generate_file_key
generate_file_key(project_id, dataset_id, filename) ==
    [project_id |-> project_id, dataset_id |-> dataset_id, timestamp |-> now,
     name |-> secure_filename(filename)]

\* DataItem.query.join(Dataset).join(Project).filter(DataItem.id == file_id,
\*     Project.organization_id == current_user.organization_id).first()
OwnItems(current_user, file_id) ==
    {i \in data_items :
        /\ i.id = file_id
        /\ \E d \in datasets, p \in projects :
               /\ d.id = i.dataset_id /\ p.id = d.project_id
               /\ p.organization_id = current_user.organization_id}

\* the file ids a request may name: those stored and one that is not
FileIds == {i.id : i \in data_items} \cup {NextId(data_items)}

\* the uploads tried: no file, an image, an image and an executable
FileBatches ==
    {<< >>,
     <<<<"a", ".", "P", "N", "G">>>>,
     <<<<"a", " ", "b", ".", "p", "n", "g">>, <<"r", "u", "n", ".", "e", "x", "e">>>>}
\* the dataset names tried
DatasetNames == {<<"d", "1">>, <<"d", "2">>}

\* upload_files.  Dataset has no data_type and created_by, DataItem has no
\* file_size, file_metadata and uploaded_by: constructing a Dataset raises,
\* constructing a DataItem raises after the object is in the bucket (the file
\* goes to failed_files), and DataItem.file_size in the statistics raises, so
\* that the request ends in the handler's except branch
UploadFiles ==
    \E header \in AdmittedHeaders, project_id \in ProjectIds, files \in FileBatches :
        LET auth == token_required(header)
            current_user == users[auth.user_id]
            found == {p \in projects :
                         /\ p.id = project_id
                         /\ p.organization_id = current_user.organization_id}
            Answer(status, message) ==
                resp' = [Handled("upload_files", header, current_user, status,
                                 message, project_id) EXCEPT !.data = [files |-> files]]
        IN       /\ users' = Touch(auth.user_id)
                 /\ UNCHANGED <<organizations, projects, datasets, data_items,
                                annotations, reviews, now>>
                 /\ IF files = << >>
                    THEN Answer(400, "No files provided") /\ UNCHANGED s3_objects
                    ELSE IF found = {}
                    THEN Answer(404, "Project not found or access denied")
                             /\ UNCHANGED s3_objects
                    ELSE \E dataset_name \in DatasetNames, s3_ok \in BOOLEAN :
                           LET dataset ==
                                   {d \in datasets : /\ d.project_id = project_id
                                                     /\ d.name = dataset_name}
                               stored ==
                                   {generate_file_key(project_id, d.id, files[i]) :
                                       d \in dataset,
                                       i \in {j \in DOMAIN files :
                                                 allowed_file(files[j])}}
                           IN  /\ Answer(500, "Upload failed")
                               /\ s3_objects' =
                                      IF s3_ok THEN s3_objects \cup stored
                                      ELSE s3_objects

(***************************************************************************)
(* upload_files in two workers at once, each in its own session: the       *)
(* objects are put into the bucket while the loop runs, and the rows would *)
(* reach the database at db.session.commit().                              *)
(***************************************************************************)
UpFree ==
    [pc |-> "idle", caller |-> NULL, project_id |-> NULL, dataset_id |-> NULL,
     files |-> << >>, status |-> 0]
UpIdle == up = [w \in Workers |-> UpFree]

\* the handler up to the end of its loop over the files: a new dataset
\* cannot be constructed, and for an existing one each allowed file is put
\* into the bucket before its DataItem fails to be constructed
UploadStart(w) ==
    /\ up[w].pc = "idle"
    /\ \E header \in AdmittedHeaders, project_id \in ProjectIds,
          files \in FileBatches \ {<< >>}, dataset_name \in DatasetNames,
          s3_ok \in BOOLEAN :
           LET auth == token_required(header)
               current_user == users[auth.user_id]
               found == {p \in projects :
                            /\ p.id = project_id
                            /\ p.organization_id = current_user.organization_id}
               dataset == {d \in datasets : /\ d.project_id = project_id
                                            /\ d.name = dataset_name}
               stored == {generate_file_key(project_id, d.id, files[i]) :
                             d \in dataset,
                             i \in {j \in DOMAIN files : allowed_file(files[j])}}
               Request(pc, dataset_id, status) ==
                   [pc |-> pc, caller |-> auth.user_id, project_id |-> project_id,
                    dataset_id |-> dataset_id, files |-> files, status |-> status]
           IN  /\ users' = Touch(auth.user_id)
               /\ IF found = {}
                  THEN /\ up' = [up EXCEPT ![w] = Request("done", NULL, 404)]
                       /\ UNCHANGED s3_objects
                  ELSE IF dataset = {}
                  THEN /\ up' = [up EXCEPT ![w] = Request("done", NULL, 500)]
                       /\ UNCHANGED s3_objects
                  ELSE /\ up' = [up EXCEPT ![w] =
                                    Request("stored",
                                            (CHOOSE d \in dataset : TRUE).id, 0)]
                       /\ s3_objects' = IF s3_ok THEN s3_objects \cup stored
                                        ELSE s3_objects
    /\ UNCHANGED <<organizations, projects, datasets, data_items, annotations,
                   reviews, now, resp, costVars, redisVars, reg,
                   stripeVars, lim>>

\* the statistics after the loop: DataItem.file_size raises, the session is
\* rolled back and nothing of the request is committed
UploadFinish(w) ==
    /\ up[w].pc = "stored"
    /\ up' = [up EXCEPT ![w].pc = "done", ![w].status = 500]
    /\ UNCHANGED <<appVars, costVars, redisVars, reg,
                   stripeVars, lim>>

\* the worker has sent its response and takes the next request
UploadReturn(w) ==
    /\ up[w].pc = "done"
    /\ up' = [up EXCEPT ![w] = UpFree]
    /\ UNCHANGED <<appVars, costVars, redisVars, reg,
                   stripeVars, lim>>

\* download_file: the answer reads data_item.file_size, which DataItem lacks
DownloadFile ==
    \E header \in AdmittedHeaders, file_id \in FileIds :
        LET auth == token_required(header)
            current_user == users[auth.user_id]
            Answer(status, message) ==
                Handled("download_file", header, current_user, status, message, file_id)
        IN       /\ users' = Touch(auth.user_id)
                 /\ resp' =
                        IF OwnItems(current_user, file_id) = {}
                        THEN Answer(404, "File not found or access denied")
                        ELSE Answer(500, "Download failed")
                 /\ UNCHANGED <<organizations, projects, datasets, data_items,
                                annotations, reviews, s3_objects, now>>

\* delete_file: the object is deleted from the bucket first; the statistics
\* then read DataItem.file_size, which raises, and the row's deletion is
\* rolled back
DeleteFile ==
    \E header \in AdmittedHeaders, file_id \in FileIds, s3_ok \in BOOLEAN :
        LET auth == token_required(header)
            current_user == users[auth.user_id]
            found == OwnItems(current_user, file_id)
            Answer(status, message) ==
                resp' = Handled("delete_file", header, current_user, status,
                                message, file_id)
        IN       /\ users' = Touch(auth.user_id)
                 /\ UNCHANGED <<organizations, projects, datasets, data_items,
                                annotations, reviews, now>>
                 /\ IF found = {}
                    THEN Answer(404, "File not found or access denied")
                             /\ UNCHANGED s3_objects
                    ELSE /\ Answer(500, "Delete failed")
                         /\ s3_objects' =
                                IF s3_ok
                                THEN s3_objects \ {i.file_path : i \in found}
                                ELSE s3_objects

\* the dataset ids a request may name: those stored and one that is not
DatasetIds == {d.id : d \in datasets} \cup {NextId(datasets)}

\* list_dataset_files for the ?page= and ?per_page= arguments of pages and
\* per_pages
ListDatasetFilesOf(pages, per_pages) ==
    \E header \in AdmittedHeaders, dataset_id \in DatasetIds,
       page \in pages, asked \in per_pages :
        LET auth == token_required(header)
            current_user == users[auth.user_id]
            per_page == UncappedPerPage(asked)
            dataset == {d \in datasets :
                           /\ d.id = dataset_id
                           /\ \E p \in projects :
                                  /\ p.id = d.project_id
                                  /\ p.organization_id = current_user.organization_id}
            files_query == {i.id : i \in {f \in data_items :
                                              f.dataset_id = dataset_id}}
        IN       /\ users' = Touch(auth.user_id)
                 /\ IF dataset = {}
                    THEN resp' = Handled("list_dataset_files", header, current_user,
                                         404, "Dataset not found or access denied",
                                         dataset_id)
                    ELSE \E order \in Arrangements(files_query) :
                           LET files_paginated == paginate(order, page, per_page)
                           IN  resp' =
                                 [Handled("list_dataset_files", header, current_user,
                                          200, "", dataset_id)
                                    EXCEPT !.data = [page |-> page,
                                                     per_page |-> asked],
                                           !.listed =
                                               {files_paginated.items[i] :
                                                   i \in DOMAIN files_paginated.items},
                                           !.pagination =
                                               PaginationOf(files_paginated, page,
                                                            per_page)]
                 /\ UNCHANGED <<organizations, projects, datasets, data_items,
                                annotations, reviews, s3_objects, now>>

(***************************************************************************)
(* The cache adapter (services/redis_service.py).  A key is a pair of a     *)
(* name and a number; the bytes of an entry are the decimal text of a      *)
(* number, the JSON text of a dict, or other text; a Python value is an    *)
(* int, a str (of digits or not) or a dict.                                *)
(***************************************************************************)
PyInt(n) == [py |-> "int", n |-> n]
PyDigits(n) == [py |-> "str", n |-> n]
PyWord == [py |-> "str", word |-> "abc"]
PyDict == [py |-> "dict"]

\* what set hands to the client: json.dumps of a dict, a str or int as it is
Serialized(value) ==
    IF value.py = "dict" THEN [json |-> "dict"]
    ELSE IF value = PyWord THEN [raw |-> "abc"]
    ELSE [digits |-> value.n]

\* what get makes of the bytes: json.loads, else the decoded text
Deserialized(bytes) ==
    IF "json" \in DOMAIN bytes THEN PyDict
    ELSE IF "digits" \in DOMAIN bytes THEN PyInt(bytes.digits)
    ELSE PyWord

\* what a call returns: True or False, None, a value, a number
Bool(b) == [bool |-> b]
Value(v) == [value |-> v]
Number(n) == [number |-> n]
\* is_connected: the service holds a client and the server answers its ping
is_connected == redis_client /\ redis_up

\* the outcome of a call: what was called, whether the store was reachable,
\* what was returned, and whether an exception left the service
Outcome(op, key, result, raised) ==
    [op |-> op, key |-> key, connected |-> is_connected, result |-> result,
     raised |-> raised]

\* the entries under key that have not expired
Live(key) ==
    {e \in store : /\ e.key = key
                   /\ (e.expires_at = NULL \/ e.expires_at > now)}
Without(key) == {e \in store : e.key # key}
Entry(key, kind, bytes, expires_at) ==
    [key |-> key, kind |-> kind, bytes |-> bytes, expires_at |-> expires_at]
ExpiresAt(expire) == IF expire = NULL THEN NULL ELSE now + expire

\* the keys, values and lifetimes tried
RateLimitKey(identifier) == <<"rate_limit", identifier>>
Identifier == 7
Keys == {<<"k", 0>>, RateLimitKey(Identifier)}
Values == {PyDict, PyWord, PyDigits(5), PyInt(5)}
Expires == {NULL, 120}
\* the cap on the counters of the store
MaxCount == 3

RedisSet ==
    \E key \in Keys, value \in Values, lifetime \in Expires :
        /\ redis_out' = Outcome("set", key, Bool(is_connected), FALSE)
        /\ store' = IF is_connected
                    THEN Without(key)
                             \cup {Entry(key, "string", Serialized(value),
                                         ExpiresAt(lifetime))}
                    ELSE store
        /\ UNCHANGED <<redis_client, redis_up>>

\* a hash under the key makes the command fail, which get answers with None
get(key) ==
    IF ~is_connected \/ Live(key) = {} THEN None
    ELSE LET e == CHOOSE x \in Live(key) : TRUE
         IN  IF e.kind = "hash" THEN None ELSE Value(Deserialized(e.bytes))

RedisGet ==
    \E key \in Keys :
        /\ redis_out' = Outcome("get", key, get(key), FALSE)
        /\ UNCHANGED <<redis_client, redis_up, store>>

RedisDelete ==
    \E key \in Keys :
        /\ redis_out' = Outcome("delete", key,
                                Bool(is_connected /\ Live(key) # {}), FALSE)
        /\ store' = IF is_connected THEN Without(key) ELSE store
        /\ UNCHANGED <<redis_client, redis_up>>

RedisExists ==
    \E key \in Keys :
        /\ redis_out' = Outcome("exists", key,
                                Bool(is_connected /\ Live(key) # {}), FALSE)
        /\ UNCHANGED <<redis_client, redis_up, store>>

\* expire: (the result, the store after it)
expire(key, seconds) ==
    IF ~is_connected \/ Live(key) = {} THEN [result |-> FALSE, store |-> store]
    ELSE [result |-> TRUE,
          store |-> Without(key)
                        \cup {[e EXCEPT !.expires_at = now + seconds] :
                                  e \in Live(key)}]

RedisExpire ==
    \E key \in Keys :
        /\ redis_out' = Outcome("expire", key, Bool(expire(key, 120).result), FALSE)
        /\ store' = expire(key, 120).store
        /\ UNCHANGED <<redis_client, redis_up>>

\* increment: (the result, the store after it); a missing key counts from 0,
\* bytes that are not a number or a hash make the command fail
increment(key) ==
    IF ~is_connected THEN [result |-> None, store |-> store]
    ELSE IF Live(key) = {}
    THEN [result |-> Number(1),
          store |-> Without(key)
                        \cup {Entry(key, "string", [digits |-> 1], NULL)}]
    ELSE LET e == CHOOSE x \in Live(key) : TRUE
         IN  IF e.kind = "hash" \/ "digits" \notin DOMAIN e.bytes
             THEN [result |-> None, store |-> store]
             ELSE [result |-> Number(e.bytes.digits + 1),
                   store |-> Without(key)
                                 \cup {[e EXCEPT !.bytes =
                                           [digits |-> e.bytes.digits + 1]]}]

\* the counter under key is below the cap
Countable(key) ==
    \A e \in Live(key) : "digits" \in DOMAIN e.bytes => e.bytes.digits < MaxCount

RedisIncrement ==
    \E key \in Keys :
        /\ Countable(key)
        /\ redis_out' = Outcome("increment", key, increment(key).result, FALSE)
        /\ store' = increment(key).store
        /\ UNCHANGED <<redis_client, redis_up>>

\* set_hash with the one field "f"
RedisSetHash ==
    \E key \in Keys, value \in Values, lifetime \in Expires :
        /\ redis_out' = Outcome("set_hash", key,
                                Bool(is_connected
                                         /\ \A e \in Live(key) : e.kind = "hash"),
                                FALSE)
        /\ store' =
               IF is_connected /\ \A e \in Live(key) : e.kind = "hash"
               THEN Without(key)
                        \cup {Entry(key, "hash", Serialized(value),
                                    IF lifetime # NULL THEN now + lifetime
                                    ELSE IF Live(key) = {} THEN NULL
                                    ELSE (CHOOSE e \in Live(key) : TRUE).expires_at)}
               ELSE store
        /\ UNCHANGED <<redis_client, redis_up>>

\* get_hash of the field "f" or of another field
get_hash(key, field) ==
    IF ~is_connected \/ Live(key) = {} THEN None
    ELSE LET e == CHOOSE x \in Live(key) : TRUE
         IN  IF e.kind # "hash" \/ field # "f" THEN None
             ELSE Value(Deserialized(e.bytes))

RedisGetHash ==
    \E key \in Keys, field \in {"f", "g"} :
        /\ redis_out' = Outcome("get_hash", key, get_hash(key, field), FALSE)
        /\ UNCHANGED <<redis_client, redis_up, store>>

\* the limits and the window tried
Limits == {2}
Window == 120

\* rate_limit_check: increment, expire on the first hit, then
\* "current <= limit", which raises when current is None
RateLimitCheck ==
    \E limit \in Limits :
        LET key == RateLimitKey(Identifier)
            current == increment(key).result
        IN  /\ Countable(key)
            /\ IF current = None
               THEN /\ redis_out' = Outcome("rate_limit_check", key, None, TRUE)
                    /\ store' = store
               ELSE /\ redis_out' = Outcome("rate_limit_check", key,
                                            Bool(current.number <= limit), FALSE)
                    /\ store' =
                           IF current.number = 1
                           THEN {[e EXCEPT !.expires_at =
                                     IF e.key = key THEN now + Window
                                     ELSE e.expires_at] :
                                    e \in increment(key).store}
                           ELSE increment(key).store
            /\ UNCHANGED <<redis_client, redis_up>>

\* rate_limit_check in two callers at once: the commands of each reach the
\* server one by one, those of the other caller and the loss of the
\* connection in between
LimFree ==
    [pc |-> "idle", current |-> None, limit |-> 0, at |-> NULL,
     result |-> None, raised |-> FALSE]
LimIdle == lim = [w \in Workers |-> LimFree]

\* current = self.increment(key)
LimitIncrement(w) ==
    /\ lim[w].pc = "idle"
    /\ Countable(RateLimitKey(Identifier))
    /\ \E limit \in Limits :
           lim' = [lim EXCEPT ![w] =
                      [pc |-> "counted",
                       current |-> increment(RateLimitKey(Identifier)).result,
                       limit |-> limit, at |-> now, result |-> None,
                       raised |-> FALSE]]
    /\ store' = increment(RateLimitKey(Identifier)).store
    /\ UNCHANGED <<redis_client, redis_up, redis_out>>

\* if current == 1: self.expire(key, window), whose result is not looked at;
\* return current <= limit, which raises when current is None
LimitExpire(w) ==
    /\ lim[w].pc = "counted"
    /\ store' = IF lim[w].current = Number(1)
                THEN expire(RateLimitKey(Identifier), Window).store
                ELSE store
    /\ lim' = [lim EXCEPT
                  ![w].pc = "done",
                  ![w].raised = (lim[w].current = None),
                  ![w].result = IF lim[w].current = None THEN None
                                ELSE Bool(lim[w].current.number <= lim[w].limit)]
    /\ UNCHANGED <<redis_client, redis_up, redis_out>>

\* the caller has its answer
LimitReturn(w) ==
    /\ lim[w].pc = "done"
    /\ lim' = [lim EXCEPT ![w] = LimFree]
    /\ UNCHANGED redisVars

\* the server goes away or comes back
Disconnect == redis_up /\ redis_up' = FALSE /\ UNCHANGED <<redis_client, store, redis_out>>
Reconnect == ~redis_up /\ redis_up' = TRUE /\ UNCHANGED <<redis_client, store, redis_out>>

NoOutcome ==
    [op |-> "", key |-> <<"", 0>>, connected |-> TRUE, result |-> None,
     raised |-> FALSE]
\* the service connected at import, nothing stored or asked yet
RedisIdle ==
    /\ redis_client = TRUE /\ redis_up = TRUE /\ store = {} /\ redis_out = NoOutcome
\* the service at import: _connect keeps a client only if the server answers
RedisInit ==
    /\ redis_up \in BOOLEAN /\ redis_client = redis_up
    /\ store = {} /\ redis_out = NoOutcome

(***************************************************************************)
(* The dashboard routes (routes/dashboard.py).                             *)
(***************************************************************************)
\* the four cached dashboards
Dashboards ==
    {"admin_dashboard", "client_dashboard", "annotator_dashboard",
     "project_manager_dashboard"}

\* the role check at the head of each dashboard
RoleFits(route, current_user) ==
    IF route = "admin_dashboard" THEN current_user.role = ADMIN
    ELSE IF route = "client_dashboard" THEN is_client_user(current_user)
    ELSE IF route = "annotator_dashboard"
    THEN current_user.role \in {LABELER, REVIEWER}
    ELSE current_user.role = PROJECT_MANAGER

\* cache_key: the admin's is one key, the client's goes by organization, the
\* annotator's and the project manager's by user
cache_key(route, current_user) ==
    IF route = "admin_dashboard" THEN <<"admin_dashboard_stats", 0>>
    ELSE IF route = "client_dashboard"
    THEN <<"client_dashboard_stats", current_user.organization_id>>
    ELSE IF route = "annotator_dashboard"
    THEN <<"annotator_dashboard_stats", current_user.id>>
    ELSE <<"pm_dashboard_stats", current_user.id>>

\* the expire argument of the redis_service.set of each dashboard
SnapshotTTL(route) ==
    IF route = "admin_dashboard" THEN 300
    ELSE IF route = "annotator_dashboard" THEN 120
    ELSE 180

\* Project.progress_percentage: the int 0 without items, else a float
progress_percentage(project) ==
    IF project.total_items = 0 THEN [int |-> 0]
    ELSE [float |-> FMul(DivToDouble(project.completed_items, project.total_items),
                         FromInt(100))]

\* a dashboard request.  The handlers are declared without parameters, and
\* token_required calls f(current_user): the call raises TypeError before
\* the body runs, outside any try, so that the cache is neither read nor
\* written and the statistics are not computed
Dashboard ==
    \E header \in AdmittedHeaders, route \in Dashboards :
        LET auth == token_required(header)
        IN  /\ users' = Touch(auth.user_id)
            /\ resp' = [Response(route, header, 500, "Internal Server Error")
                           EXCEPT !.caller = auth.user_id]
            /\ UNCHANGED <<organizations, projects, datasets, data_items,
                           annotations, reviews, s3_objects, now>>

(***************************************************************************)
(* The payment routes (routes/payments.py) and the webhook of              *)
(* services/stripe_service.py.                                             *)
(***************************************************************************)
\* the payment routes behind token_required
PaymentRoutes ==
    {"calculate_project_cost", "create_payment_intent", "create_subscription",
     "get_payment_methods", "get_payment_history", "get_subscription_status",
     "cancel_subscription", "get_usage_stats"}

\* no intent created; the webhook secret is configured, or is or is not
StripeIdle == stripe_intents = {} /\ webhook_secret = TRUE
StripeInit == stripe_intents = {} /\ webhook_secret \in BOOLEAN

\* a request to a payment route.  Like the dashboards, the handlers are
\* declared without parameters and read g.current_user, while token_required
\* calls f(current_user): the call raises TypeError before the body runs and
\* outside the handler's try, so that neither the role and organization
\* checks nor any call of stripe_service is reached
Payment ==
    \E header \in AdmittedHeaders, route \in PaymentRoutes, project_id \in ProjectIds :
        LET auth == token_required(header)
        IN  /\ users' = Touch(auth.user_id)
            /\ resp' = [Response(route, header, 500, "Internal Server Error")
                           EXCEPT !.caller = auth.user_id,
                                  !.target = IF route = "create_payment_intent"
                                             THEN project_id ELSE NULL]
            /\ UNCHANGED <<organizations, projects, datasets, data_items,
                           annotations, reviews, s3_objects, now>>

\* the Stripe-Signature headers tried: none, one that does not verify against
\* the secret, one that does
Signatures == {"", "forged", "signed"}
\* the events tried: their type and the project_id of their metadata
EventTypes ==
    {"payment_intent.succeeded", "payment_intent.payment_failed",
     "customer.subscription.deleted"}
Events ==
    [type : EventTypes, project_id : ProjectIds \cup {NULL}]

\* what _handle_payment_success and _handle_payment_failure leave in the
\* session: attributes set on the loaded row (payment_status is no column of
\* Project), with db.session.commit() commented out
Pending(event) ==
    IF event.type \in {"payment_intent.succeeded", "payment_intent.payment_failed"}
           /\ event.project_id # NULL /\ HasRow(projects, event.project_id)
    THEN IF event.type = "payment_intent.succeeded"
         THEN {[Row(projects, event.project_id) EXCEPT !.status = "active"]}
         ELSE {Row(projects, event.project_id)}
    ELSE {}

\* handle_webhook: False without a secret or when construct_event refuses
\* the signature, else True once the event's handler has returned
handle_webhook(event, signature) ==
    IF ~webhook_secret THEN FALSE
    ELSE IF signature # "signed" THEN FALSE
    ELSE TRUE

\* stripe_webhook.  The rows the event handler changed stay in the session,
\* which is dropped uncommitted when the request ends
Webhook ==
    \E signature \in Signatures, event \in Events :
        LET Answer(status, message, pending) ==
                resp' = [Response("stripe_webhook", NoHeader, status, message)
                            EXCEPT !.target = event.project_id,
                                   !.data = [signature |-> signature,
                                             type |-> event.type,
                                             pending |-> pending]]
        IN  /\ IF signature = ""
               THEN Answer(400, "Missing signature", {})
               ELSE IF handle_webhook(event, signature)
               THEN Answer(200, "success", Pending(event))
               ELSE Answer(400, "Webhook processing failed", {})
            /\ UNCHANGED <<dbVars, s3_objects, now>>

(***************************************************************************)
(* The database at the start: two client organizations with a project     *)
(* each, an account of each role and a deactivated one; the first project  *)
(* has a dataset of one file, an annotation of the labeler and a review of *)
(* the reviewer.                                                           *)
(***************************************************************************)
SeedPassword == <<"P", "a", "s", "s", "w", "0", "r", "d">>
\* the clock at the start
Epoch == 1

Account(id, username, role, organization_id, is_active) ==
    [id |-> id, username |-> username,
     email |-> username \o <<"@", "x", ".", "i", "o">>,
     password_hash |-> generate_password_hash(SeedPassword),
     role |-> role, organization_id |-> organization_id, is_active |-> is_active,
     last_login |-> NULL, last_activity |-> NULL]

SeedOrganizations ==
    <<[id |-> 1, name |-> <<"o", "1">>], [id |-> 2, name |-> <<"o", "2">>]>>

SeedUsers ==
    <<Account(1, <<"a", "d">>, ADMIN, NULL, TRUE),
      Account(2, <<"p", "m">>, PROJECT_MANAGER, NULL, TRUE),
      Account(3, <<"c", "a">>, CLIENT_ADMIN, 1, TRUE),
      Account(4, <<"c", "u">>, CLIENT_USER, 2, TRUE),
      Account(5, <<"l", "a">>, LABELER, NULL, TRUE),
      Account(6, <<"r", "e">>, REVIEWER, NULL, TRUE),
      Account(7, <<"e", "x">>, CLIENT_USER, 1, FALSE)>>

SeedProjects ==
    {[id |-> 1, name |-> <<"p", "1">>, project_type |-> "image_classification",
      status |-> "draft", organization_id |-> 1, manager_id |-> NULL,
      total_items |-> 1, completed_items |-> 0, approved_items |-> 0,
      created_at |-> Epoch, updated_at |-> Epoch,
      started_at |-> NULL, completed_at |-> NULL],
     [id |-> 2, name |-> <<"p", "2">>, project_type |-> "custom",
      status |-> "draft", organization_id |-> 2, manager_id |-> NULL,
      total_items |-> 0, completed_items |-> 0, approved_items |-> 0,
      created_at |-> Epoch, updated_at |-> Epoch,
      started_at |-> NULL, completed_at |-> NULL]}

SeedKey ==
    [project_id |-> 1, dataset_id |-> 1, timestamp |-> Epoch,
     name |-> <<"a", ".", "p", "n", "g">>]
SeedDatasets ==
    {[id |-> 1, name |-> <<"d", "1">>, project_id |-> 1, file_count |-> 1,
      total_size_bytes |-> 10]}
SeedItems ==
    {[id |-> 1, dataset_id |-> 1, filename |-> <<"a", ".", "p", "n", "g">>,
      file_path |-> SeedKey, file_size_bytes |-> 10]}
SeedAnnotations ==
    {[id |-> 1, project_id |-> 1, data_item_id |-> 1, labeler_id |-> 5]}
SeedReviews == {[id |-> 1, project_id |-> 1, reviewer_id |-> 6]}

(***************************************************************************)
(* The account routes (routes/auth.py).                                    *)
(***************************************************************************)
\* the cap on the rows of the user table
MaxUsers == 9

NewPassword == <<"S", "e", "c", "r", "e", "t", "1", "2">>

\* the JSON bodies of POST /auth/register tried: a valid one, and the same
\* with the username followed by a blank or in another case, with the email
\* in upper case between blanks, with both changed, with an email without "@"
\* or none, with a weak password, and with an organization
NewUser ==
    [username |-> <<"b", "o">>, email |-> <<"b", "@", "x", ".", "i", "o">>,
     password |-> NewPassword, organization_name |-> << >>]
RegisterInputs ==
    {NewUser,
     [NewUser EXCEPT !.username = <<"b", "o", " ">>,
                     !.email = <<"c", "@", "x", ".", "i", "o">>],
     [NewUser EXCEPT !.username = <<"B", "o">>],
     [NewUser EXCEPT !.username = <<"B", "o">>,
                     !.email = <<" ", "B", "@", "X", ".", "I", "O", " ">>],
     [NewUser EXCEPT !.email = <<"b", "x", ".", "i", "o">>],
     [NewUser EXCEPT !.email = << >>],
     [NewUser EXCEPT !.password = <<"s", "e", "c", "r", "e", "t">>],
     [NewUser EXCEPT !.organization_name = <<" ", "o", "3">>]}

\* User.query.filter_by(username=username).first() is not None, and so for email
UsernameExists(username) == \E i \in DOMAIN users : users[i].username = username
EmailExists(email) == \E i \in DOMAIN users : users[i].email = email

\* register's answer to a body that does not get as far as the insertion
RegisterRefusal(data) ==
    LET username == strip(data.username)
        email == lower(strip(data.email))
    IN  IF data.username = << >> THEN [status |-> 400, message |-> "username is required"]
        ELSE IF data.email = << >> THEN [status |-> 400, message |-> "email is required"]
        ELSE IF data.password = << >>
        THEN [status |-> 400, message |-> "password is required"]
        ELSE IF ~validate_email(email)
        THEN [status |-> 400, message |-> "Invalid email format"]
        ELSE IF ~validate_password(data.password).ok
        THEN [status |-> 400, message |-> validate_password(data.password).message]
        ELSE IF UsernameExists(username)
        THEN [status |-> 409, message |-> "Username already exists"]
        ELSE IF EmailExists(email)
        THEN [status |-> 409, message |-> "Email already registered"]
        ELSE [status |-> 201, message |-> "User registered successfully"]

Register ==
    \E data \in RegisterInputs :
        LET answer == RegisterRefusal(data)
            organization_name == strip(data.organization_name)
            organization ==
                [id |-> Len(organizations) + 1, name |-> organization_name]
            user ==
                [id |-> Len(users) + 1, username |-> strip(data.username),
                 email |-> lower(strip(data.email)),
                 password_hash |-> generate_password_hash(data.password),
                 role |-> IF organization_name # << >> THEN CLIENT_ADMIN
                          ELSE CLIENT_USER,
                 organization_id |-> IF organization_name # << >>
                                     THEN organization.id ELSE NULL,
                 is_active |-> TRUE, last_login |-> NULL, last_activity |-> NULL]
        IN  /\ answer.status = 201 => Len(users) < MaxUsers
            /\ IF answer.status # 201
               THEN /\ resp' = [Response("register", NoHeader, answer.status,
                                         answer.message) EXCEPT !.data = data]
                    /\ UNCHANGED <<users, organizations>>
               ELSE /\ users' = Append(users, user)
                    /\ organizations' =
                           IF organization_name # << >>
                           THEN Append(organizations, organization)
                           ELSE organizations
                    /\ resp' = [Response("register", NoHeader, 201, answer.message)
                                    EXCEPT !.data = data, !.target = user.id,
                                           !.token = generate_token(user, SECRET_KEY)]
            /\ UNCHANGED <<projects, datasets, data_items, annotations, reviews,
                           s3_objects, now>>

(***************************************************************************)
(* register in two workers at once.  Each worker runs the handler in its   *)
(* own session: the checks read the committed rows, and the inserts reach  *)
(* the database in one transaction at db.session.commit().                 *)
(***************************************************************************)

\* the bodies the two workers are sent: one email, written as stored or in
\* upper case between blanks, under one username or two, with or without an
\* organization
RaceInputs ==
    {NewUser,
     [NewUser EXCEPT !.username = <<"B", "o">>],
     [NewUser EXCEPT !.username = <<"B", "o">>,
                     !.email = <<" ", "B", "@", "X", ".", "I", "O", " ">>],
     [NewUser EXCEPT !.username = <<"z">>, !.organization_name = <<" ", "o", "3">>]}

\* a worker that handles no request
RegFree == [pc |-> "idle", data |-> None, status |-> 0, target |-> NULL]
RegIdle == reg = [w \in Workers |-> RegFree]

\* the rows that register adds to its session
RegisteredUser(data, id, organization_id) ==
    [id |-> id, username |-> strip(data.username),
     email |-> lower(strip(data.email)),
     password_hash |-> generate_password_hash(data.password),
     role |-> IF strip(data.organization_name) # << >> THEN CLIENT_ADMIN
              ELSE CLIENT_USER,
     organization_id |-> organization_id,
     is_active |-> TRUE, last_login |-> NULL, last_activity |-> NULL]

\* the refusal of an INSERT by the unique indexes of user.username and
\* user.email (unique=True), which the commit raises as IntegrityError
UniqueNeverViolated(user) == FALSE
UniqueViolated(user) == UsernameExists(user.username) \/ EmailExists(user.email)

\* the handler up to and including its two existence checks
RegisterCheck(w) ==
    /\ reg[w].pc = "idle"
    /\ \E data \in RaceInputs :
           LET answer == RegisterRefusal(data)
           IN  reg' = [reg EXCEPT ![w] =
                          IF answer.status = 201
                          THEN [pc |-> "checked", data |-> data, status |-> 0,
                                target |-> NULL]
                          ELSE [pc |-> "done", data |-> data,
                                status |-> answer.status, target |-> NULL]]
    /\ UNCHANGED <<appVars, costVars, redisVars, up, stripeVars, lim>>

\* the rest of the handler: the organization is flushed and the user
\* inserted in one transaction; a refused INSERT rolls all of it back
RegisterCommit(w) ==
    /\ reg[w].pc = "checked"
    /\ LET data == reg[w].data
           organization_name == strip(data.organization_name)
           organization == [id |-> Len(organizations) + 1, name |-> organization_name]
           user == RegisteredUser(data, Len(users) + 1,
                                  IF organization_name # << >>
                                  THEN organization.id ELSE NULL)
       IN  IF UniqueViolated(user)
           THEN /\ reg' = [reg EXCEPT ![w].pc = "done", ![w].status = 500]
                /\ UNCHANGED <<users, organizations>>
           ELSE /\ Len(users) < MaxUsers
                /\ users' = Append(users, user)
                /\ organizations' =
                       IF organization_name # << >>
                       THEN Append(organizations, organization)
                       ELSE organizations
                /\ reg' = [reg EXCEPT ![w].pc = "done", ![w].status = 201,
                                      ![w].target = user.id]
    /\ UNCHANGED <<projects, datasets, data_items, annotations, reviews,
                   s3_objects, now, resp, costVars, redisVars, up, stripeVars, lim>>

\* the worker has sent its response and takes the next request
RegisterReturn(w) ==
    /\ reg[w].pc = "done"
    /\ reg' = [reg EXCEPT ![w] = RegFree]
    /\ UNCHANGED <<appVars, costVars, redisVars, up, stripeVars, lim>>

\* the JSON bodies of POST /auth/login tried: the registered, a seeded, the
\* deactivated and an unknown email, each with a password that is or is not
\* the account's, and bodies without email or password
Credentials(email, password) == [email |-> email, password |-> password]
LoginInputs ==
    {Credentials(<<"b", "@", "x", ".", "i", "o">>, NewPassword),
     Credentials(<<" ", "B", "@", "X", ".", "I", "O", " ">>, NewPassword),
     Credentials(<<"b", "@", "x", ".", "i", "o">>, SeedPassword),
     Credentials(<<"a", "d", "@", "x", ".", "i", "o">>, SeedPassword),
     Credentials(<<"a", "d", "@", "x", ".", "i", "o">>, NewPassword),
     Credentials(<<"e", "x", "@", "x", ".", "i", "o">>, SeedPassword),
     Credentials(<<"e", "x", "@", "x", ".", "i", "o">>, NewPassword),
     Credentials(<<"n", "o", "@", "x", ".", "i", "o">>, SeedPassword),
     Credentials(<< >>, SeedPassword),
     Credentials(<<"b", "@", "x", ".", "i", "o">>, << >>)}

\* User.check_password
check_password(user, password) == check_password_hash(user.password_hash, password)

LoginRefusedIfUnknown(email, password) == ~EmailExists(email)

\* "not user or not user.check_password(password)"
LoginRefused(email, password) ==
    \/ ~EmailExists(email)
    \/ ~check_password(users[CHOOSE i \in DOMAIN users : users[i].email = email],
                       password)

Login ==
    \E data \in LoginInputs :
        LET email == lower(strip(data.email))
            Answer(status, message) ==
                /\ resp' = [Response("login", NoHeader, status, message)
                                EXCEPT !.data = data]
                /\ UNCHANGED users
        IN  /\ UNCHANGED <<organizations, projects, datasets, data_items,
                           annotations, reviews, s3_objects, now>>
            /\ IF data.email = << >> \/ data.password = << >>
               THEN Answer(400, "Email and password are required")
               ELSE IF LoginRefused(email, data.password)
               THEN Answer(401, "Invalid email or password")
               ELSE LET i == CHOOSE j \in DOMAIN users : users[j].email = email
                        user == [users[i] EXCEPT !.last_login = now,
                                                 !.last_activity = now]
                    IN  IF ~users[i].is_active
                        THEN Answer(401, "Account is deactivated")
                        ELSE /\ Cardinality({u \in DOMAIN users :
                                                users[u].last_activity # NULL}
                                                \cup {i}) <= MaxCallers
                             /\ users' = [users EXCEPT ![i] = user]
                             /\ resp' = [Response("login", NoHeader, 200,
                                                  "Login successful")
                                            EXCEPT !.data = data, !.target = i,
                                                   !.token = generate_token(user,
                                                                            SECRET_KEY)]

\* GET /auth/me
GetCurrentUser ==
    \E header \in AdmittedHeaders :
        LET auth == token_required(header)
        IN  /\ users' = Touch(auth.user_id)
            /\ resp' = Handled("get_current_user", header, users[auth.user_id], 200,
                               "", auth.user_id)
            /\ UNCHANGED <<organizations, projects, datasets, data_items,
                           annotations, reviews, s3_objects, now>>

\* the new passwords tried: two that pass, and ones that are too short, lack
\* an uppercase letter, a lowercase letter or a digit, or break several rules
NewPasswords ==
    {NewPassword, SeedPassword,
     <<"A", "b", "c", "1">>,
     <<"s", "e", "c", "r", "e", "t", "1", "2">>,
     <<"S", "E", "C", "R", "E", "T", "1", "2">>,
     <<"S", "e", "c", "r", "e", "t", "x", "x">>,
     <<"s", "e", "c", "r", "e", "t", "x", "x">>,
     <<"1", "2", "3", "4", "5", "6", "7", "8">>,
     <<"a", "b", "c">>}
\* the JSON bodies of POST /auth/change-password tried
ChangeInputs ==
    [current_password : {SeedPassword}, new_password : NewPasswords]
        \cup [current_password : {NewPassword},
              new_password : {SeedPassword,
                              <<"S", "e", "c", "r", "e", "t", "x", "x">>}]
        \cup {[current_password |-> << >>, new_password |-> NewPassword],
              [current_password |-> SeedPassword, new_password |-> << >>]}

\* change_password
ChangePassword ==
    \E header \in AdmittedHeaders, data \in ChangeInputs :
        LET auth == token_required(header)
            current_user == [users[auth.user_id] EXCEPT !.last_activity = now]
            Reply(status, message) ==
                [Handled("change_password", header, current_user, status, message,
                         auth.user_id) EXCEPT !.data = data]
            Answer(status, message) ==
                /\ resp' = Reply(status, message)
                /\ users' = Touch(auth.user_id)
        IN  /\ UNCHANGED <<organizations, projects, datasets, data_items,
                           annotations, reviews, s3_objects, now>>
            /\ IF data.current_password = << >> \/ data.new_password = << >>
               THEN Answer(400, "Current password and new password are required")
               ELSE IF ~check_password(current_user, data.current_password)
               THEN Answer(401, "Current password is incorrect")
               ELSE IF ~validate_password(data.new_password).ok
               THEN Answer(400, validate_password(data.new_password).message)
               ELSE /\ users' =
                           [users EXCEPT ![auth.user_id] =
                               [current_user EXCEPT !.password_hash =
                                   generate_password_hash(data.new_password)]]
                    /\ resp' = Reply(200, "Password changed successfully")

\* time passes: more than a token lives
TickStep == TokenExpiresIn + 1
MaxTicks == 1
Tick ==
    /\ now + TickStep <= Epoch + MaxTicks * TickStep
    /\ now' = now + TickStep
    /\ UNCHANGED <<dbVars, s3_objects, resp>>

NoResponse == Response("", NoHeader, 0, "")

\* no cost calculation is under way
CostIdle ==
    /\ cost_req = [annotation_count |-> 0, custom_rate |-> None]
    /\ cost_res = None

\* no worker handles a request
WorkIdle == RegIdle /\ UpIdle /\ StripeIdle /\ LimIdle

\* the database as seeded, nothing answered yet
AppInit ==
    /\ users = SeedUsers
    /\ organizations = SeedOrganizations
    /\ projects = SeedProjects
    /\ datasets = SeedDatasets
    /\ data_items = SeedItems
    /\ annotations = SeedAnnotations
    /\ reviews = SeedReviews
    /\ s3_objects = {SeedKey}
    /\ now = Epoch
    /\ resp = NoResponse

Init == AppInit /\ CostIdle /\ RedisIdle /\ WorkIdle

Next ==
    \/ RejectToken /\ UNCHANGED sideVars
    \/ GetProjects /\ UNCHANGED sideVars
    \/ CreateProject /\ UNCHANGED sideVars
    \/ GetProject /\ UNCHANGED sideVars
    \/ UpdateProject /\ UNCHANGED sideVars
    \/ DeleteProject /\ UNCHANGED sideVars
    \/ GetProjectStats /\ UNCHANGED sideVars
    \/ UploadFiles /\ UNCHANGED sideVars
    \/ DownloadFile /\ UNCHANGED sideVars
    \/ DeleteFile /\ UNCHANGED sideVars

Spec == Init /\ [][Next]_vars

\* the account routes alone
NextAuth ==
    \/ Register /\ UNCHANGED sideVars
    \/ Login /\ UNCHANGED sideVars
    \/ GetCurrentUser /\ UNCHANGED sideVars
    \/ ChangePassword /\ UNCHANGED sideVars
    \/ RejectToken /\ UNCHANGED sideVars
    \/ Tick /\ UNCHANGED sideVars

SpecAuth == Init /\ [][NextAuth]_vars

\* the bodies of PUT /projects/<id> that name a status: each value of the
\* enum, and a value outside it together with a new name
StatusInputs ==
    {UpdateBody({"status"}, << >>, status, 0) : status \in ProjectStatus}
        \cup {UpdateBody({"name", "status"}, <<"x">>, "bogus", 0)}

UpdateStatus == UpdateProjectOf(StatusInputs)

\* the status changes alone
NextStatus ==
    \/ UpdateStatus /\ UNCHANGED sideVars
    \/ RejectToken /\ UNCHANGED sideVars

SpecStatus == Init /\ [][NextStatus]_vars

\* the ?page= and ?per_page= arguments tried: the first two pages, and page
\* sizes of one row, of the default, of the largest allowed and above it
PageArgs == {1, 2}
PerPageArgs == {1, DefaultPerPage, MaxPerPage, MaxPerPage + 1}

GetProjectsPaged == GetProjectsOf(PageArgs, PerPageArgs)
ListDatasetFiles == ListDatasetFilesOf(PageArgs, PerPageArgs)

\* the paginated lists alone
NextLists ==
    \/ GetProjectsPaged /\ UNCHANGED sideVars
    \/ ListDatasetFiles /\ UNCHANGED sideVars
    \/ CreateProject /\ UNCHANGED sideVars
    \/ RejectToken /\ UNCHANGED sideVars

SpecLists == Init /\ [][NextLists]_vars

\* the dashboards alone
NextDashboard ==
    \/ Dashboard /\ UNCHANGED sideVars
    \/ RejectToken /\ UNCHANGED sideVars
    \/ Tick /\ UNCHANGED sideVars

SpecDashboard == Init /\ [][NextDashboard]_vars

\* time passes and the server drops the entries that have expired
RedisTick ==
    /\ Tick
    /\ store' = {e \in store : e.expires_at = NULL \/ e.expires_at > now'}
    /\ UNCHANGED <<redis_client, redis_up, redis_out>>

InitRedis == AppInit /\ CostIdle /\ RedisInit /\ WorkIdle

\* the cache adapter alone
NextRedis ==
    \/ RedisSet /\ UNCHANGED <<dbVars, s3_objects, now, resp, costVars, workVars>>
    \/ RedisGet /\ UNCHANGED <<dbVars, s3_objects, now, resp, costVars, workVars>>
    \/ RedisDelete /\ UNCHANGED <<dbVars, s3_objects, now, resp, costVars, workVars>>
    \/ RedisExists /\ UNCHANGED <<dbVars, s3_objects, now, resp, costVars, workVars>>
    \/ RedisExpire /\ UNCHANGED <<dbVars, s3_objects, now, resp, costVars, workVars>>
    \/ RedisIncrement /\ UNCHANGED <<dbVars, s3_objects, now, resp, costVars, workVars>>
    \/ RedisSetHash /\ UNCHANGED <<dbVars, s3_objects, now, resp, costVars, workVars>>
    \/ RedisGetHash /\ UNCHANGED <<dbVars, s3_objects, now, resp, costVars, workVars>>
    \/ RateLimitCheck /\ UNCHANGED <<dbVars, s3_objects, now, resp, costVars, workVars>>
    \/ Disconnect /\ UNCHANGED <<dbVars, s3_objects, now, resp, costVars, workVars>>
    \/ Reconnect /\ UNCHANGED <<dbVars, s3_objects, now, resp, costVars, workVars>>
    \/ RedisTick /\ UNCHANGED <<costVars, workVars>>

SpecRedis == InitRedis /\ [][NextRedis]_vars

\* two workers registering at once
NextRace ==
    \/ \E w \in Workers : RegisterCheck(w)
    \/ \E w \in Workers : RegisterCommit(w)
    \/ \E w \in Workers : RegisterReturn(w)

SpecRace == Init /\ [][NextRace]_vars

\* two workers uploading at once
NextUploads ==
    \/ \E w \in Workers : UploadStart(w)
    \/ \E w \in Workers : UploadFinish(w)
    \/ \E w \in Workers : UploadReturn(w)

SpecUploads == Init /\ [][NextUploads]_vars

\* the roles a stored account is moved to
RolesGiven == {ADMIN, CLIENT_ADMIN, LABELER}

\* a write to the user table between two requests: the role column of an
\* account that has logged in is set to another role, or its is_active
\* column is cleared
StoredChange ==
    /\ \E u \in DOMAIN users :
           /\ users[u].last_login # NULL
           /\ \/ \E role \in RolesGiven :
                     /\ role # users[u].role
                     /\ users' = [users EXCEPT ![u].role = role]
              \/ /\ users[u].is_active
                 /\ users' = [users EXCEPT ![u].is_active = FALSE]
    /\ UNCHANGED <<organizations, projects, datasets, data_items, annotations,
                   reviews, s3_objects, now, resp>>

\* requests with a token of an account whose row changes in between
NextRoles ==
    \/ Login /\ UNCHANGED sideVars
    \/ StoredChange /\ UNCHANGED sideVars
    \/ CreateProject /\ UNCHANGED sideVars
    \/ DeleteProject /\ UNCHANGED sideVars
    \/ GetCurrentUser /\ UNCHANGED sideVars
    \/ RejectToken /\ UNCHANGED sideVars

SpecRoles == Init /\ [][NextRoles]_vars

\* the payment routes and the dashboards, beside routes whose handlers take
\* the caller
InitPayments ==
    AppInit /\ CostIdle /\ RedisIdle /\ RegIdle /\ UpIdle /\ StripeInit /\ LimIdle

NextPayments ==
    \/ Payment /\ UNCHANGED sideVars
    \/ Webhook /\ UNCHANGED sideVars
    \/ Dashboard /\ UNCHANGED sideVars
    \/ GetProject /\ UNCHANGED sideVars
    \/ GetCurrentUser /\ UNCHANGED sideVars
    \/ RejectToken /\ UNCHANGED sideVars

SpecPayments == InitPayments /\ [][NextPayments]_vars

\* the rate limiter alone, with two callers, the clock and the connection
NextLimiter ==
    \/ \E w \in Workers :
           LimitIncrement(w)
               /\ UNCHANGED <<appVars, costVars, reg, up, stripeVars>>
    \/ \E w \in Workers :
           LimitExpire(w) /\ UNCHANGED <<appVars, costVars, reg, up, stripeVars>>
    \/ \E w \in Workers :
           LimitReturn(w) /\ UNCHANGED <<appVars, costVars, reg, up, stripeVars>>
    \/ Disconnect /\ UNCHANGED <<appVars, costVars, workVars>>
    \/ Reconnect /\ UNCHANGED <<appVars, costVars, workVars>>
    \/ RedisTick /\ UNCHANGED <<costVars, workVars>>

SpecLimiter == Init /\ [][NextLimiter]_vars

\* the cost calculation alone, on a database that stays as seeded
InitCost == AppInit /\ CostInit /\ RedisIdle /\ WorkIdle

NextCost == CalculateProjectCost /\ UNCHANGED <<appVars, redisVars, workVars>>

SpecCost == InitCost /\ [][NextCost]_vars

(***************************************************************************)
(* Properties of the decorators and the project and file routes, checked   *)
(* under Spec.                                                             *)
(***************************************************************************)
\* the header reads "Bearer <token>"
WellFormedBearer(header) ==
    /\ header.present
    /\ Len(header.parts) = 2
    /\ header.parts[1] = [word |-> "Bearer"]
    /\ IsJwt(header.parts[2])

\* the token is signed with the key, has not expired and names an active account
GoodToken(token) ==
    /\ token.key = SECRET_KEY
    /\ token.exp > now
    /\ token.user_id \in DOMAIN users
    /\ users[token.user_id].is_active

\* C1: a handler wrapped by token_required is invoked only when the
\* Authorization header is a well-formed "Bearer <token>" whose token has a
\* valid signature, is unexpired and names an existing active user; in every
\* other case the answer is 401 and the handler is not invoked.
C1_OnlyBearerTokens ==
    LET good == WellFormedBearer(resp.header) /\ GoodToken(resp.header.parts[2])
    IN  /\ resp.handler => good
        /\ (resp.status # 0 /\ ~good) => (resp.status = 401 /\ ~resp.handler)

\* the routes behind role_required and the roles the specification allows
GatedRoutes == {"create_project", "update_project", "delete_project"}
AllowedRoles(route) ==
    IF route = "delete_project" THEN {"admin", "project_manager"}
    ELSE {"admin", "project_manager", "client_admin"}

\* the step answers a request to a gated route of an authenticated caller
GatedStep == resp'.route \in GatedRoutes /\ resp'.caller # NULL
\* the step leaves every table but the user table, and the bucket, alone
OnlyUsersWritten ==
    UNCHANGED <<organizations, projects, datasets, data_items, annotations,
                reviews, s3_objects>>

\* C2 as stated: on a route behind role_required(S) a caller whose role is
\* not in S gets 403, the handler body does not run and no stored state
\* changes; S is {admin, project_manager, client_admin} for project creation
\* and update and {admin, project_manager} for project deletion.
C2_NoStoredChange ==
    [][GatedStep =>
        LET role == users[resp'.caller].role
        IN  /\ role \notin AllowedRoles(resp'.route) =>
                /\ resp'.status = 403 /\ ~resp'.handler
                /\ OnlyUsersWritten /\ UNCHANGED users
            /\ role \in AllowedRoles(resp'.route) => resp'.handler]_vars

\* C2, amended: as above, but of the stored state the caller's last_activity,
\* which token_required commits before the role is looked at, is written.
C2_OnlyLastActivityWritten ==
    [][GatedStep =>
        LET role == users[resp'.caller].role
        IN  /\ role \notin AllowedRoles(resp'.route) =>
                /\ resp'.status = 403 /\ ~resp'.handler
                /\ OnlyUsersWritten
                /\ users' = [users EXCEPT ![resp'.caller].last_activity = now]
            /\ role \in AllowedRoles(resp'.route) => resp'.handler]_vars

C2_Witness ==
    /\ resp.route = "delete_project" /\ resp.status = 403 /\ ~resp.handler
    /\ users[resp.caller].role = "client_admin"
    /\ users[resp.caller].last_activity = now

\* the caller of the last response is a client user
ClientCaller(r) == r.caller # NULL /\ users[r.caller].role \in {"client_admin", "client_user"}
\* the organization of the project of a stored file
OrgOfFile(file_id) ==
    LET item == CHOOSE i \in data_items : i.id = file_id
        dataset == CHOOSE d \in datasets : d.id = item.dataset_id
    IN  (CHOOSE p \in projects : p.id = dataset.project_id).organization_id
\* the request of the step names a project, or a file of a project, of the
\* caller's own organization
OwnTarget(r) ==
    IF r.route \in {"download_file", "delete_file"}
    THEN /\ \E i \in data_items : i.id = r.target
         /\ OrgOfFile(r.target) = users[r.caller].organization_id
    ELSE \E p \in projects :
             p.id = r.target /\ p.organization_id = users[r.caller].organization_id

\* C3: a client user can never read, update or fetch the statistics of a
\* project of another organization (403), creates projects only in the own
\* organization, and uploads, downloads and deletes files only for projects
\* of the own organization (404 otherwise).
C3_TenantIsolation ==
    [][ClientCaller(resp') =>
        LET own == users[resp'.caller].organization_id
        IN  /\ (/\ resp'.route \in {"get_project", "update_project",
                                    "get_project_stats"}
                /\ \E p \in projects : p.id = resp'.target /\ p.organization_id # own)
                   => (resp'.status = 403 /\ UNCHANGED projects)
            /\ \A p \in projects' \ projects : p.organization_id = own
            /\ \A p \in projects \ projects' : p.organization_id = own
            /\ (/\ resp'.route \in {"upload_files", "download_file", "delete_file"}
                /\ resp'.route = "upload_files" => resp'.data.files # << >>
                /\ ~OwnTarget(resp'))
                   => (/\ resp'.status = 404
                       /\ UNCHANGED <<datasets, data_items, s3_objects>>)
            /\ (/\ resp'.route \in {"upload_files", "download_file", "delete_file"}
                /\ resp'.status = 200) => OwnTarget(resp')]_vars

C3_Witness ==
    /\ ClientCaller(resp)
    /\ resp.route = "update_project" /\ resp.status = 403
    /\ \E p \in projects :
           /\ p.id = resp.target
           /\ p.organization_id # users[resp.caller].organization_id

\* C4: without filters the project list holds all projects for admins and
\* project managers, the projects of the own organization for client users,
\* the projects with an annotation of the caller for labelers and the
\* projects with a review of the caller for reviewers.
C4_ListScopedByRole ==
    (resp.route = "get_projects" /\ resp.status = 200 /\ resp.data.status = "") =>
        LET user == users[resp.caller]
            expected ==
                CASE user.role \in {"admin", "project_manager"} -> projects
                  [] user.role \in {"client_admin", "client_user"} ->
                        {p \in projects : p.organization_id = user.organization_id}
                  [] user.role = "labeler" ->
                        {p \in projects : \E a \in annotations :
                            a.labeler_id = user.id /\ a.project_id = p.id}
                  [] user.role = "reviewer" ->
                        {p \in projects : \E r \in reviews :
                            r.reviewer_id = user.id /\ r.project_id = p.id}
        IN  resp.listed = {p.id : p \in expected}

C4_Witness ==
    /\ resp.route = "get_projects" /\ resp.status = 200 /\ resp.data.status = ""
    /\ users[resp.caller].role = "labeler"
    /\ resp.listed = {1}
    /\ Cardinality(projects) > 1

\* the last request was an upload of named files to a project of the
\* caller's organization, so that the handler got as far as its loop
UploadReached ==
    /\ resp.route = "upload_files" /\ resp.handler
    /\ resp.data.files # << >>
    /\ \E p \in projects :
           /\ p.id = resp.target
           /\ p.organization_id = users[resp.caller].organization_id

\* C11: an upload that reaches the loop is answered 200 with every named file
\* in exactly one of uploaded_files and failed_files, and no file with a
\* disallowed extension is ever sent to storage.
C11_PartialFailure ==
    UploadReached =>
        /\ resp.status = 200
        /\ \A key \in s3_objects : allowed_file(key.name)

ItemsOf(dataset) == {i \in data_items : i.dataset_id = dataset.id}
\* the sum of the sizes of a set of DataItem rows
RECURSIVE SumSizes(_)
SumSizes(items) ==
    IF items = {} THEN 0
    ELSE LET item == CHOOSE i \in items : TRUE
         IN  item.file_size_bytes + SumSizes(items \ {item})
\* the sum of the counts of a set of Dataset rows
RECURSIVE SumCounts(_)
SumCounts(rows) ==
    IF rows = {} THEN 0
    ELSE LET row == CHOOSE d \in rows : TRUE
         IN  row.file_count + SumCounts(rows \ {row})

\* C12: after an upload batch the statistics have been recomputed: each
\* dataset of the project counts its DataItem rows and sums their sizes, and
\* the project's total_items is the sum of its datasets' counts.
C12_AggregatesRecomputed ==
    UploadReached =>
        /\ resp.status = 200
        /\ \A d \in datasets :
               d.project_id = resp.target =>
                   /\ d.file_count = Cardinality(ItemsOf(d))
                   /\ d.total_size_bytes = SumSizes(ItemsOf(d))
        /\ \A p \in projects :
               p.id = resp.target =>
                   p.total_items =
                       SumCounts({d \in datasets : d.project_id = p.id})

\* the step answers a delete of a stored project by a caller that
\* role_required lets through
DeleteStep ==
    /\ resp'.route = "delete_project" /\ resp'.handler
    /\ HasRow(projects, resp'.target)

\* C13: a project manager's delete of a project that is not a draft is
\* answered 400 and leaves the project stored unchanged; every other delete
\* let through (an admin's in any status, a project manager's on a draft)
\* succeeds and removes the project.
C13_DeleteOnlyDraft ==
    [][DeleteStep =>
          LET project == Row(projects, resp'.target)
          IN  IF project.status # "draft" /\ users[resp'.caller].role # ADMIN
              THEN resp'.status = 400 /\ projects' = projects
              ELSE resp'.status = 200 /\ ~HasRow(projects', resp'.target)]_vars

\* C15: in every state reached by project creates, updates and deletes, file
\* uploads and deletes and stats reads, no project has more completed or
\* approved items than total items.
C15_ProgressWithinTotal ==
    \A p \in projects :
        /\ p.completed_items <= p.total_items
        /\ p.approved_items <= p.total_items

\* an update that names completed_items above the total has been accepted
C15_Witness ==
    /\ resp.route = "update_project" /\ resp.status = 200
    /\ "completed_items" \in resp.data.fields
    /\ resp.data.completed_items > Row(projects, resp.target).total_items
    /\ \E p \in projects : p.id > Cardinality(SeedProjects)

(***************************************************************************)
(* Properties of registration and login, checked under SpecAuth.           *)
(***************************************************************************)
\* a trimmed address with every upper-case letter replaced by its lower-case one
CaseFolded(s) == [i \in 1..Len(strip(s)) |-> LowerChar(strip(s)[i])]

\* the step answers a registration whose body has the three fields, a valid
\* email and a valid password
\* the step answers a registration whose body has the three fields and a
\* valid email
SoundRegistrationBody ==
    /\ resp'.route = "register"
    /\ resp'.data.username # << >> /\ resp'.data.email # << >>
    /\ resp'.data.password # << >>
    /\ validate_email(CaseFolded(resp'.data.email))

SoundRegistration ==
    /\ resp'.route = "register" /\ now' = now
    /\ resp'.data.username # << >> /\ resp'.data.email # << >>
    /\ validate_email(CaseFolded(resp'.data.email))
    /\ validate_password(resp'.data.password).ok

\* C5: of two registrations handled one after the other with the same email
\* (compared after trimming and lower-casing) or the same username (after
\* trimming), the second is answered 409 and adds no user row.
C5_DuplicateRegistration ==
    [][(/\ SoundRegistration
        /\ \E i \in DOMAIN users :
               \/ users[i].email = CaseFolded(resp'.data.email)
               \/ users[i].username = strip(resp'.data.username))
          => (resp'.status = 409 /\ UNCHANGED <<users, organizations>>)]_vars

C5_Witness ==
    /\ resp.route = "register" /\ resp.status = 409
    /\ resp.message = "Email already registered"
    /\ resp.data.email = <<" ", "B", "@", "X", ".", "I", "O", " ">>
    /\ \E i \in DOMAIN users :
           /\ i > Len(SeedUsers)
           /\ users[i].email = <<"b", "@", "x", ".", "i", "o">>
           /\ users[i].username # resp.data.username

\* C6: a login with a wrong password never succeeds: whether the email is
\* unknown or the password does not match, the answer is the same 401 with
\* the message "Invalid email or password".
C6_WrongPasswordRefused ==
    (/\ resp.route = "login"
     /\ resp.data.email # << >> /\ resp.data.password # << >>
     /\ \A i \in DOMAIN users :
            users[i].email = lower(strip(resp.data.email)) =>
                users[i].password_hash # generate_password_hash(resp.data.password))
        => (/\ resp.status = 401
            /\ resp.message = "Invalid email or password"
            /\ resp.token = None)

C6_Witness ==
    /\ resp.route = "login" /\ resp.status = 401
    /\ resp.message = "Invalid email or password"
    /\ \E i \in DOMAIN users :
           /\ users[i].email = lower(strip(resp.data.email))
           /\ users[i].is_active
           /\ users[i].password_hash # generate_password_hash(resp.data.password)

(***************************************************************************)
(* Properties of the status changes, checked under SpecStatus.             *)
(***************************************************************************)
\* the step answers an update that names a status, of a stored project the
\* caller may update
StatusStep ==
    /\ resp'.route = "update_project" /\ resp'.handler
    /\ HasRow(projects, resp'.target)
    /\ ~AccessDenied(users[resp'.caller], Row(projects, resp'.target))
    /\ "status" \in resp'.data.fields

\* C20: an update that names a status of the enum is accepted whatever the
\* current status is and stores that status; one that names a value outside
\* the enum is answered 400 and leaves every project as stored, the other
\* fields of the body included.
C20_AnyTransitionAccepted ==
    [][StatusStep =>
          IF resp'.data.status \in ProjectStatus
          THEN /\ resp'.status = 200
               /\ Row(projects', resp'.target).status = resp'.data.status
          ELSE /\ resp'.status = 400
               /\ projects' = projects]_vars

\* a project that had been completed and cancelled is a draft again
C20_Witness ==
    /\ resp.route = "update_project" /\ resp.status = 200
    /\ resp.data.status = "draft"
    /\ Row(projects, resp.target).status = "draft"
    /\ Row(projects, resp.target).completed_at # NULL
    /\ \E p \in projects : p.status = "cancelled" /\ p.started_at # NULL

(***************************************************************************)
(* Properties of the password rules, checked under SpecAuth.               *)
(***************************************************************************)
HasUpper(password) == \E i \in DOMAIN password : password[i] \in UpperLetters
HasLower(password) == \E i \in DOMAIN password : password[i] \in Letters \ UpperLetters
HasDigit(password) == \E i \in DOMAIN password : password[i] \in Digits
Strong(password) ==
    /\ Len(password) >= 8
    /\ HasUpper(password) /\ HasLower(password) /\ HasDigit(password)
\* the message of the first rule a password breaks
FirstViolated(password) ==
    IF Len(password) < 8 THEN "Password must be at least 8 characters long"
    ELSE IF ~HasUpper(password)
    THEN "Password must contain at least one uppercase letter"
    ELSE IF ~HasLower(password)
    THEN "Password must contain at least one lowercase letter"
    ELSE "Password must contain at least one number"

\* the step answers a registration or a change of password that got as far
\* as the validation of the password
PasswordStep ==
    \/ SoundRegistrationBody
    \/ /\ resp'.route = "change_password" /\ resp'.handler
       /\ resp'.data.current_password # << >> /\ resp'.data.new_password # << >>
       /\ check_password(users[resp'.caller], resp'.data.current_password)
PasswordSent ==
    IF resp'.route = "register" THEN resp'.data.password
    ELSE resp'.data.new_password
PasswordsKept ==
    /\ Len(users') = Len(users)
    /\ \A i \in DOMAIN users : users'[i].password_hash = users[i].password_hash

\* C17: a password is accepted exactly when it has at least 8 characters, an
\* uppercase letter, a lowercase letter and a digit; register and
\* change-password answer any other password with 400 and the message of the
\* first rule it breaks (length, uppercase, lowercase, digit), and store no
\* password.
C17_PasswordRules ==
    [][PasswordStep =>
          /\ validate_password(PasswordSent).ok <=> Strong(PasswordSent)
          /\ IF Strong(PasswordSent)
             THEN resp'.status \in {200, 201, 409}
             ELSE /\ resp'.status = 400
                  /\ resp'.message = FirstViolated(PasswordSent)
                  /\ PasswordsKept]_vars

\* an account that has changed its password is refused one without a digit
C17_Witness ==
    /\ resp.route = "change_password" /\ resp.status = 400
    /\ resp.message = "Password must contain at least one number"
    /\ resp.caller <= Len(SeedUsers)
    /\ users[resp.caller].password_hash = generate_password_hash(NewPassword)

(***************************************************************************)
(* Properties of the paginated lists, checked under SpecLists.             *)
(***************************************************************************)
ListAnswered ==
    /\ resp.route \in {"get_projects", "list_dataset_files"}
    /\ resp.status = 200

\* C18: every paginated list answers with a page size of at most 100
\* whatever per_page was asked for, with no more rows than that, with the
\* total count, and with has_next and has_prev that fit the page returned.
C18_PageSizeCapped ==
    ListAnswered =>
        LET pagination == resp.pagination
        IN  /\ pagination.per_page <= 100
            /\ pagination.per_page <= resp.data.per_page
            /\ Cardinality(resp.listed) <= pagination.per_page
            /\ pagination.has_prev = (pagination.page > 1)
            /\ pagination.has_next =
                   (pagination.page * pagination.per_page < pagination.total)

(***************************************************************************)
(* Properties of the cache adapter, checked under SpecRedis.               *)
(***************************************************************************)
\* the last call found the store unreachable
CalledUnreachable == redis_out.op # "" /\ ~redis_out.connected

\* C19: a call of the cache adapter that finds the store unreachable returns
\* None or False and lets no exception out.
C19_FailuresReported ==
    CalledUnreachable =>
        /\ ~redis_out.raised
        /\ redis_out.result \in {None, Bool(FALSE)}

(***************************************************************************)
(* Properties of the dashboards, checked under SpecDashboard.              *)
(***************************************************************************)
\* the last request asked a dashboard on behalf of an account of its role
DashboardAsked ==
    /\ resp.route \in Dashboards /\ resp.caller # NULL
    /\ RoleFits(resp.route, users[resp.caller])
    /\ resp.route = "client_dashboard" => users[resp.caller].organization_id # NULL

\* C14: a dashboard request of a fitting account is answered 200, from the
\* snapshot under its cache key if one is live and else from statistics
\* computed and stored under that key with the endpoint's TTL; either way a
\* live snapshot that expires within the TTL is under the key afterwards.
C14_DashboardCached ==
    DashboardAsked =>
        /\ resp.status = 200
        /\ \E e \in Live(cache_key(resp.route, users[resp.caller])) :
               /\ e.expires_at # NULL
               /\ e.expires_at <= now + SnapshotTTL(resp.route)

\* C16: progress_percentage is 0 for every project without items, and a
\* client or project-manager dashboard is answered 200 with a progress of 0
\* for such a project.
C16_ProgressZeroWithoutItems ==
    /\ \A p \in projects :
           p.total_items = 0 => progress_percentage(p) = [int |-> 0]
    /\ (/\ DashboardAsked
        /\ resp.route \in {"client_dashboard", "project_manager_dashboard"}
        /\ \E p \in projects :
               /\ p.total_items = 0
               /\ resp.route = "client_dashboard" =>
                      p.organization_id = users[resp.caller].organization_id)
           => resp.status = 200

(***************************************************************************)
(* Properties of the timestamps of a project, checked under SpecStatus.    *)
(***************************************************************************)
\* C28: after any sequence of updates of a project created as draft, a
\* project whose status is active has its started_at set and one whose
\* status is completed has its completed_at set.
C28_TimestampsFollowStatus ==
    \A p \in projects :
        /\ p.status = "active" => p.started_at # NULL
        /\ p.status = "completed" => p.completed_at # NULL

(***************************************************************************)
(* Properties of delete_file, checked under Spec.                          *)
(***************************************************************************)
\* the last request asked to delete a stored file of the caller's organization
DeleteAsked ==
    /\ resp.route = "delete_file" /\ resp.handler
    /\ \E i \in SeedItems :
           /\ i.id = resp.target
           /\ OrgOfFile(i.id) = users[resp.caller].organization_id

\* every project's total_items is the number of DataItem rows of its datasets
TotalsConsistent ==
    \A p \in projects :
        p.total_items =
            Cardinality({i \in data_items :
                            \E d \in datasets :
                                d.id = i.dataset_id /\ d.project_id = p.id})

\* C26: uploads and deletions of files keep every project's total_items equal
\* to the number of data items of its datasets; in particular a deletion of a
\* stored file succeeds, removes the row and leaves the totals consistent.
C26_TotalsFollowDeletes ==
    /\ TotalsConsistent
    /\ DeleteAsked =>
           /\ resp.status = 200
           /\ \A i \in data_items : i.id # resp.target

\* C27: delete_file removes the stored object and its DataItem row together
\* or not at all: answered 200 both are gone, answered with an error both
\* are still there.
C27_DeleteAllOrNothing ==
    DeleteAsked =>
        LET rows == {i \in data_items : i.id = resp.target}
            objects == {i.file_path : i \in SeedItems} \cap s3_objects
        IN  IF resp.status = 200
            THEN rows = {} /\ \A i \in SeedItems :
                                  i.id = resp.target => i.file_path \notin objects
            ELSE /\ rows # {}
                 /\ \A i \in rows : i.file_path \in s3_objects

(***************************************************************************)
(* Properties of two registrations handled at once, checked under SpecRace.*)
(***************************************************************************)
\* the address a worker's request registers
RaceEmail(w) == CaseFolded(reg[w].data.email)

\* the step is worker w's commit of a registration that passed its checks
CommitStep(w) == reg[w].pc = "checked" /\ reg'[w].pc = "done"

\* C21: of two registrations with the same email handled at once, also when
\* both pass the existence check before either commits, at most one is
\* answered 201 and at most one user row with that email is stored; the one
\* that loses stores no user row and no organization row.
C21_RegistrationRace ==
    /\ [](/\ \A i, j \in DOMAIN users : users[i].email = users[j].email => i = j
          /\ \A v, w \in Workers :
                 (/\ v # w
                  /\ reg[v].pc = "done" /\ reg[v].status = 201
                  /\ reg[w].pc = "done" /\ reg[w].status = 201)
                     => RaceEmail(v) # RaceEmail(w))
    /\ [][\A w \in Workers :
              CommitStep(w) =>
                  /\ (\E i \in DOMAIN users : users[i].email = RaceEmail(w))
                         => reg'[w].status # 201
                  /\ reg'[w].status # 201 => UNCHANGED <<users, organizations>>
                  /\ reg'[w].status = 201 =>
                         /\ Len(users') = Len(users) + 1
                         /\ users'[Len(users')].email = RaceEmail(w)]_vars

\* both workers passed the checks with one email; the first to commit was
\* answered 201, the other, which came with an organization, 500 with no
\* organization stored
C21_Witness ==
    /\ reg[1].pc = "done" /\ reg[1].status = 201
    /\ reg[2].pc = "done" /\ reg[2].status = 500
    /\ RaceEmail(1) = RaceEmail(2)
    /\ reg[2].data.organization_name # << >>
    /\ Len(organizations) = Len(SeedOrganizations)
    /\ Len(users) = Len(SeedUsers) + 1

(***************************************************************************)
(* Properties of two uploads handled at once, checked under SpecUploads.   *)
(***************************************************************************)
\* both workers have answered an upload to one dataset that each began before
\* the other had ended
BothUploaded ==
    /\ \A w \in Workers : up[w].pc = "done" /\ up[w].dataset_id # NULL
    /\ up[1].dataset_id = up[2].dataset_id

\* C22: when two uploads to one dataset are handled at once, both commit, and
\* afterwards the dataset's count and size are those of its DataItem rows and
\* the project's total_items is the sum over its datasets.
C22_ConcurrentUploads ==
    BothUploaded =>
        /\ \A w \in Workers : up[w].status = 200
        /\ \A d \in datasets :
               d.id = up[1].dataset_id =>
                   /\ d.file_count = Cardinality(ItemsOf(d))
                   /\ d.total_size_bytes = SumSizes(ItemsOf(d))
        /\ \A p \in projects :
               p.id = up[1].project_id =>
                   p.total_items = SumCounts({d \in datasets : d.project_id = p.id})

(***************************************************************************)
(* Properties of requests made with a token issued before the account's    *)
(* row changed, checked under SpecRoles.                                   *)
(***************************************************************************)
\* the step answers a request: it is no write to the role or the active flag
RequestStep ==
    \A u \in DOMAIN users :
        /\ users'[u].role = users[u].role
        /\ users'[u].is_active = users[u].is_active

\* the request of the step carries "Bearer <token>" with a token that has a
\* valid signature, has not expired and names a stored account
LiveToken ==
    /\ WellFormedBearer(resp'.header)
    /\ resp'.header.parts[2].key = SECRET_KEY
    /\ resp'.header.parts[2].exp > now
    /\ resp'.header.parts[2].user_id \in DOMAIN users

\* C23: a request with an unexpired token is authorized by the role and the
\* active flag stored for the account when the request is made, whatever role
\* the token carries: 401 once the account is deactivated, and on a route
\* behind role_required 403 exactly when the stored role is not allowed.
C23_StoredRoleDecides ==
    [][(RequestStep /\ LiveToken) =>
          LET stored == users[resp'.header.parts[2].user_id]
          IN  IF ~stored.is_active
              THEN resp'.status = 401 /\ ~resp'.handler
              ELSE /\ resp'.caller = stored.id
                   /\ resp'.route \in GatedRoutes =>
                          IF stored.role \in AllowedRoles(resp'.route)
                          THEN resp'.handler
                          ELSE resp'.status = 403 /\ ~resp'.handler]_vars

\* a token issued to a client admin is refused the creation of a project
\* after the account has become a labeler
C23_Witness ==
    /\ resp.route = "create_project" /\ resp.status = 403
    /\ WellFormedBearer(resp.header)
    /\ resp.header.parts[2].role = "client_admin"
    /\ resp.header.parts[2].exp > now
    /\ users[resp.caller].role = "labeler"

(***************************************************************************)
(* Properties of the payment routes and the webhook, checked under         *)
(* SpecPayments.                                                           *)
(***************************************************************************)
\* C24: on every route behind token_required a request with a valid token
\* reaches the handler body, which runs on behalf of the account the token
\* was verified for; so do the dashboard and the payment handlers.
C24_HandlerGetsCaller ==
    (resp.route # "" /\ resp.caller # NULL) =>
        /\ resp.handler
        /\ WellFormedBearer(resp.header)
        /\ resp.caller = resp.header.parts[2].user_id

\* the last request asked for a payment intent for a stored project on behalf
\* of an account that is no platform admin and belongs to another organization
ForeignIntentAsked ==
    /\ resp.route = "create_payment_intent" /\ resp.caller # NULL
    /\ HasRow(projects, resp.target)
    /\ users[resp.caller].role # "admin"
    /\ users[resp.caller].organization_id
           # Row(projects, resp.target).organization_id

\* C25: create_payment_intent for a project of another organization is
\* refused with 403 unless the caller is a platform admin, a client admin of
\* another organization included, and never creates a payment intent.
C25_ForeignIntentRefused ==
    /\ ForeignIntentAsked => resp.status = 403
    /\ \A intent \in stripe_intents :
           \/ users[intent.user_id].role = "admin"
           \/ \E p \in projects :
                  /\ p.id = intent.project_id
                  /\ p.organization_id = users[intent.user_id].organization_id

\* the last request was a webhook call with a verified signature of a
\* payment_intent.succeeded event that names a stored project
PaymentSucceeded ==
    /\ resp.route = "stripe_webhook" /\ webhook_secret
    /\ resp.data.signature = "signed"
    /\ resp.data.type = "payment_intent.succeeded"
    /\ HasRow(projects, resp.target)

\* C30: after a verified payment_intent.succeeded event for a stored project
\* the project is stored with status active; a webhook call whose signature
\* does not verify, or that finds no secret configured, changes nothing.
C30_PaymentStored ==
    /\ PaymentSucceeded =>
           /\ resp.status = 200
           /\ Row(projects, resp.target).status = "active"
    /\ (/\ resp.route = "stripe_webhook"
        /\ (~webhook_secret \/ resp.data.signature # "signed"))
           => /\ resp.status = 400
              /\ resp.data.pending = {}
              /\ projects = SeedProjects

(***************************************************************************)
(* Properties of the rate limiter, checked under SpecLimiter.              *)
(***************************************************************************)
\* C29: rate_limit_check is a fixed-window limiter under any interleaving of
\* its callers: a call is allowed exactly when it is among the first `limit`
\* calls counted in the window, two calls counted at one time never share a
\* place, and once more than a window has passed with no call under way the
\* counter is gone, so that a blocked identifier is allowed again.
C29_FixedWindow ==
    /\ [](/\ \A w \in Workers :
                 (lim[w].pc = "done" /\ lim[w].current # None) =>
                     lim[w].result = Bool(lim[w].current.number <= lim[w].limit)
          /\ \A v, w \in Workers :
                 (/\ v # w
                  /\ lim[v].pc # "idle" /\ lim[w].pc # "idle"
                  /\ lim[v].current # None /\ lim[w].current # None
                  /\ lim[v].at = lim[w].at)
                     => lim[v].current # lim[w].current)
    /\ [][(/\ now' > now + Window
           /\ \A w \in Workers : lim[w].pc = "idle")
             => \A e \in store' : e.key # RateLimitKey(Identifier)]_vars

=============================================================================
